---- MODULE Spec2Model ----
(***************************************************************************)
(* A model of boldr-py's QIR library: the expression classes and their     *)
(* constructor check (qir/base.py), the host-value encoder and decoder     *)
(* (qir/utils.py), the evaluators (Expression.evaluate and the             *)
(* evaluate_locally methods of every class) and the bytecode decompiler    *)
(* (qir/decompile.py).                                                     *)
(*                                                                         *)
(* Python values are records with a kind field k.  An instance of an       *)
(* Expression class is [k |-> "expr", cls, args, oid]: cls is the class,   *)
(* args the values of its declared fields in declaration order and oid     *)
(* the identity of the object.  No class of the library defines __eq__,    *)
(* so Python's == between two instances is the comparison of their oid.    *)
(***************************************************************************)
EXTENDS Integers, Sequences, FiniteSets, TLC

VARIABLES
    pc,     \* position of the client: "idle", or inside one library call
    call,   \* the call being made: the operation and its inputs
    ret,    \* the outcome of the last finished step of the call
    log     \* the events of the current call, oldest first

vars == <<pc, call, ret, log>>

(***************************************************************************)
(* Bounds of the model.                                                    *)
(***************************************************************************)
MaxInt == 3

(***************************************************************************)
(* Host (Python) values.                                                   *)
(***************************************************************************)
PyNone == [k |-> "none"]
PyBool(b) == [k |-> "bool", b |-> b]
PyInt(i) == [k |-> "int", i |-> i]
PyFloat(num, den) == [k |-> "float", num |-> num, den |-> den]
PyStr(s) == [k |-> "str", s |-> s]
\* a list, and a tuple: the elements in iteration order
PyList(elems) == [k |-> "list", elems |-> elems]
PyTuple(elems) == [k |-> "tuple", elems |-> elems]
\* a mapping: its <<key, value>> items in iteration order, keys distinct
PyDict(items) == [k |-> "dict", items |-> items]
\* a host function (types.FunctionType), named
PyFunc(f) == [k |-> "func", f |-> f]
\* the class object qir.values.Null (not an instance of it)
NullClass == [k |-> "class", c |-> "Null"]

Node(cls, args, oid) == [k |-> "expr", cls |-> cls, args |-> args, oid |-> oid]

IsNode(v) == v.k = "expr"
IsA(v, cls) == v.k = "expr" /\ v.cls = cls

(***************************************************************************)
(* The class table: the `fields` descriptor of every class.                *)
(***************************************************************************)
ValueClasses == {"Null", "Number", "Double", "String", "Boolean"}

UnaryClasses == {"Not"}

BinaryClasses == {"Div", "Minus", "Mod", "Plus", "Star", "Power", "And", "Or",
                  "Equal", "LowerOrEqual", "LowerThan", "GreaterOrEqual",
                  "GreaterThan"}

OperatorClasses == {"Scan", "Filter", "Project", "Sort", "Limit", "Group", "Join"}

\* classes whose `fields` is None: instantiating them raises NotImplementedError
AbstractClasses == {"Expression", "UnserializableExpression", "Value",
                    "ListConstr", "TupleConstr", "Operator"}

E1(a) == <<<<a, "Expression">>>>
E2(a, b) == <<<<a, "Expression">>, <<b, "Expression">>>>
E3(a, b, c) == <<<<a, "Expression">>, <<b, "Expression">>, <<c, "Expression">>>>

fields(cls) ==
    CASE cls = "Null" -> <<>>
      [] cls = "Number" -> <<<<"value", "int">>>>
      [] cls = "Double" -> <<<<"value", "float">>>>
      [] cls = "String" -> <<<<"value", "str">>>>
      [] cls = "Boolean" -> <<<<"value", "bool">>>>
      [] cls = "ListNil" -> <<>>
      [] cls = "ListCons" -> E2("head", "tail")
      [] cls = "ListDestr" -> E3("input", "on_nil", "on_cons")
      [] cls = "TupleNil" -> <<>>
      [] cls = "TupleCons" -> E3("key", "value", "tail")
      [] cls = "TupleDestr" -> E2("input", "key")
      [] cls = "Identifier" -> <<<<"name", "str">>>>
      [] cls = "Lambda" -> <<<<"parameter", "Identifier">>, <<"body", "Expression">>>>
      [] cls = "Fixed" -> <<>>
      [] cls = "Application" -> E2("function", "argument")
      [] cls = "Conditional" -> E3("condition", "on_true", "on_false")
      [] cls = "Scan" -> E1("table")
      [] cls = "Filter" -> E2("filter", "input")
      [] cls = "Project" -> E2("format", "input")
      [] cls = "Sort" -> E3("rows", "ascending", "input")
      [] cls = "Limit" -> E2("limit", "input")
      [] cls = "Group" -> E2("rows", "input")
      [] cls = "Join" -> E3("filter", "left", "right")
      [] cls \in UnaryClasses \cup {"UnaryOperator"} -> E1("element")
      [] cls \in BinaryClasses \cup {"BinaryOperator"} -> E2("left", "right")
      [] cls = "Native" -> <<<<"value", "object">>>>
      [] cls = "Table" -> <<<<"database", "Database">>, <<"name", "str">>>>
      [] cls = "Database" -> <<<<"driver", "str">>, <<"name", "str">>,
                               <<"host", "str">>, <<"port", "int">>,
                               <<"username", "str">>, <<"password", "str">>>>

\* isinstance(argument, field[1])
isinstance(v, shape) ==
    CASE shape = "Expression" -> v.k = "expr"
      [] shape = "Identifier" -> IsA(v, "Identifier")
      [] shape = "Database" -> IsA(v, "Database")
      [] shape = "str" -> v.k = "str"
      [] shape = "int" -> v.k \in {"int", "bool"}
      [] shape = "float" -> v.k = "float"
      [] shape = "bool" -> v.k = "bool"
      [] shape = "object" -> TRUE

(***************************************************************************)
(* Outcomes.  A call either returns a value or raises; the machine state m *)
(* it threads holds n, the oid the next constructed object gets, tr, the   *)
(* trace of evaluator events, and srv, the behaviour of the remote server. *)
(***************************************************************************)
Nothing == [k |-> "nothing"]

Ok(v, m) == [st |-> "ok", val |-> v, m |-> m]
Raise(err, m) == [st |-> err, val |-> Nothing, m |-> m]

\* m.envs are the dict objects that serve as environments: an environment is
\* passed by reference, as its position in m.envs
Machine(n, srv) == [n |-> n, tr |-> <<>>, srv |-> srv, envs |-> <<>>]

\* the rest K of a computation after the step r, unless r raised
Then(r, K(_)) == IF r.st = "ok" THEN K(r) ELSE r

\* the first field whose argument is not an instance of the declared shape
BadField(cls, args) ==
    {i \in 1..Len(args) : ~isinstance(args[i], fields(cls)[i][2])}

\* Expression.__init__: cls(*args).  The arity branch formats its message
\* with self.__name__, which an instance does not have: building the
\* TypeError raises AttributeError instead.
New(cls, args, m) ==
    IF cls \in AbstractClasses THEN Raise("NotImplementedError", m)
    ELSE IF Len(args) # Len(fields(cls)) THEN Raise("AttributeError", m)
    ELSE IF BadField(cls, args) # {} THEN Raise("TypeError", m)
    ELSE Ok(Node(cls, args, m.n), [m EXCEPT !.n = @ + 1])

(***************************************************************************)
(* Attribute access and structural views of a tree.                        *)
(***************************************************************************)
\* getattr(e, name), for a field the class of e declares
Attr(e, name) ==
    e.args[CHOOSE i \in 1..Len(fields(e.cls)) : fields(e.cls)[i][1] = name]

\* the tree below a value with the identities left out: two values are the
\* same QIR tree exactly when their Strip is equal
RECURSIVE Strip(_)
Strip(v) ==
    IF v.k = "expr"
    THEN [k |-> "expr", cls |-> v.cls,
          args |-> [i \in 1..Len(v.args) |-> Strip(v.args[i])]]
    ELSE v

\* the heads of a ListCons chain, outermost first
RECURSIVE ConsHeads(_)
ConsHeads(v) ==
    IF IsA(v, "ListCons") THEN <<Attr(v, "head")>> \o ConsHeads(Attr(v, "tail"))
    ELSE <<>>

(***************************************************************************)
(* qir/utils.py: encode and decode.                                        *)
(***************************************************************************)
RECURSIVE encode(_, _)
RECURSIVE encode_dict_loop(_, _, _, _)
RECURSIVE encode_list_loop(_, _, _, _)

\* the loop of encode_dict from item i on, inner being the tuple built so far
encode_dict_loop(items, i, inner, m) ==
    IF i > Len(items) THEN Ok(inner, m)
    ELSE LET key == New("String", <<items[i][1]>>, m) IN
         IF key.st # "ok" THEN key
         ELSE LET v == encode(items[i][2], key.m) IN
              IF v.st # "ok" THEN v
              ELSE LET c == New("TupleCons", <<key.val, v.val, inner>>, v.m) IN
                   IF c.st # "ok" THEN c
                   ELSE encode_dict_loop(items, i + 1, c.val, c.m)

encode_dict(source, m) ==
    LET nil == New("TupleNil", <<>>, m) IN
    encode_dict_loop(source.items, 1, nil.val, nil.m)

\* the loop of encode_list from element i on, inner being the list built so far
encode_list_loop(source, i, inner, m) ==
    IF i > Len(source) THEN Ok(inner, m)
    ELSE LET v == encode(source[i], m) IN
         IF v.st # "ok" THEN v
         ELSE LET c == New("ListCons", <<v.val, inner>>, v.m) IN
              IF c.st # "ok" THEN c
              ELSE encode_list_loop(source, i + 1, c.val, c.m)

encode_list(source, m) ==
    LET nil == New("ListNil", <<>>, m) IN
    encode_list_loop(source, 1, nil.val, nil.m)

encode(value, m) ==
    IF value.k = "none" THEN Ok(NullClass, m)  \* `return Null`: the class
    ELSE IF value.k = "bool" THEN New("Boolean", <<value>>, m)
    ELSE IF value.k = "int" THEN New("Number", <<value>>, m)
    ELSE IF value.k = "float" THEN New("Double", <<value>>, m)
    ELSE IF value.k = "str" THEN New("String", <<value>>, m)
    ELSE IF value.k = "dict" THEN encode_dict(value, m)
    ELSE IF value.k \in {"list", "tuple"} THEN encode_list(value.elems, m)
    ELSE Raise("TypeError", m)

\* decoded[key] = value on the items of a dict
DictSet(items, key, value) ==
    IF \E i \in 1..Len(items) : items[i][1] = key
    THEN [i \in 1..Len(items) |->
             IF items[i][1] = key THEN <<key, value>> ELSE items[i]]
    ELSE Append(items, <<key, value>>)

\* expression.decode()
RECURSIVE decode(_, _)
decode(expression, m) ==
    IF expression = NullClass
    THEN Raise("TypeError", m)         \* Null.decode() has no self
    ELSE IF ~IsNode(expression) THEN Raise("AttributeError", m)
    ELSE IF expression.cls = "Null" THEN Ok(PyNone, m)
    ELSE IF expression.cls \in {"Number", "Double", "String", "Boolean", "Native"}
    THEN Ok(Attr(expression, "value"), m)
    ELSE IF expression.cls = "ListNil" THEN Ok(PyTuple(<<>>), m)
    ELSE IF expression.cls = "ListCons"
    THEN Raise("TypeError", m)         \* self.head(): the head is not callable
    ELSE IF expression.cls = "TupleNil" THEN Ok(PyDict(<<>>), m)
    ELSE IF expression.cls = "TupleCons"
    THEN LET decoded == decode(Attr(expression, "tail"), m) IN
         IF decoded.st # "ok" THEN decoded
         ELSE LET v == decode(Attr(expression, "value"), m) IN
              IF v.st # "ok" THEN v
              ELSE LET key == decode(Attr(expression, "key"), m) IN
                   IF key.st # "ok" THEN key
                   ELSE IF decoded.val.k # "dict" \/ key.val.k = "dict"
                   THEN Raise("TypeError", m)
                   ELSE Ok(PyDict(DictSet(decoded.val.items, key.val, v.val)), m)
    ELSE Raise("TypeError", m)         \* NotDecodableError is not an exception class

(***************************************************************************)
(* Python's operators on the payloads of Value nodes (bool, int, float,    *)
(* str).  A float is the exact fraction num/den in lowest terms, den > 0.  *)
(***************************************************************************)
RECURSIVE GCD(_, _)
GCD(a, b) == IF b = 0 THEN a ELSE GCD(b, a % b)

Abs(x) == IF x < 0 THEN -x ELSE x

\* floor division and modulo with Python's sign rule, for b # 0
FloorDiv(a, b) ==
    LET q == Abs(a) \div Abs(b)
        exact == (Abs(a) % Abs(b)) = 0
    IN IF (a >= 0) = (b > 0) THEN q ELSE IF exact THEN -q ELSE -(q + 1)

FloorMod(a, b) == a - b * FloorDiv(a, b)

Frac(num, den) ==
    LET g == GCD(Abs(num), Abs(den))
        sgn == IF den < 0 THEN -1 ELSE 1
    IN PyFloat(sgn * (num \div g), sgn * (den \div g))

IsNum(v) == v.k \in {"bool", "int", "float"}
NumOf(v) == IF v.k = "bool" THEN (IF v.b THEN 1 ELSE 0)
            ELSE IF v.k = "int" THEN v.i ELSE v.num
DenOf(v) == IF v.k = "float" THEN v.den ELSE 1

Truthy(v) ==
    IF v.k = "bool" THEN v.b
    ELSE IF v.k = "int" THEN v.i # 0
    ELSE IF v.k = "float" THEN v.num # 0
    ELSE IF v.k = "str" THEN v.s # ""
    ELSE v.k # "none"

Done(v) == [st |-> "ok", val |-> v]
Fail(err) == [st |-> err, val |-> Nothing]

\* a number as int when both operands were int or bool, else as float
NumResult(x, y, num, den) ==
    IF x.k = "float" \/ y.k = "float" THEN Done(Frac(num, den))
    ELSE Done(PyInt(num \div den))

RECURSIVE IntPow(_, _)
IntPow(b, e) == IF e = 0 THEN 1 ELSE b * IntPow(b, e - 1)

RECURSIVE Repeat(_, _)
Repeat(s, n) == IF n <= 0 THEN "" ELSE s \o Repeat(s, n - 1)

PyLess(x, y) == NumOf(x) * DenOf(y) < NumOf(y) * DenOf(x)
PyNumEq(x, y) == NumOf(x) * DenOf(y) = NumOf(y) * DenOf(x)

\* x == y
PyEquals(x, y) ==
    IF IsNum(x) /\ IsNum(y) THEN PyNumEq(x, y)
    ELSE IF x.k = "str" /\ y.k = "str" THEN x.s = y.s
    ELSE FALSE

\* an ordering comparison; the order of two different strings is not modelled
Compare(x, y, strict, swap) ==
    LET a == IF swap THEN y ELSE x
        b == IF swap THEN x ELSE y
    IN IF IsNum(x) /\ IsNum(y)
       THEN Done(PyBool(IF strict THEN PyLess(a, b) ELSE ~PyLess(b, a)))
       ELSE IF x.k = "str" /\ y.k = "str"
       THEN (IF x.s = y.s THEN Done(PyBool(~strict)) ELSE Fail("Unmodelled"))
       ELSE Fail("TypeError")

\* cls.operate(x, y) of the binary operator classes
operate(cls, x, y) ==
    CASE cls = "Div" ->
           IF ~(IsNum(x) /\ IsNum(y)) THEN Fail("TypeError")
           ELSE IF NumOf(y) = 0 THEN Fail("ZeroDivisionError")
           ELSE Done(Frac(NumOf(x) * DenOf(y), DenOf(x) * NumOf(y)))
      [] cls = "Minus" ->        \* `return x / y`, as written in the class
           IF ~(IsNum(x) /\ IsNum(y)) THEN Fail("TypeError")
           ELSE IF NumOf(y) = 0 THEN Fail("ZeroDivisionError")
           ELSE Done(Frac(NumOf(x) * DenOf(y), DenOf(x) * NumOf(y)))
      [] cls = "Mod" ->
           IF ~(IsNum(x) /\ IsNum(y)) THEN Fail("TypeError")
           ELSE IF NumOf(y) = 0 THEN Fail("ZeroDivisionError")
           ELSE NumResult(x, y,
                    FloorMod(NumOf(x) * DenOf(y), NumOf(y) * DenOf(x)),
                    DenOf(x) * DenOf(y))
      [] cls = "Plus" ->
           IF IsNum(x) /\ IsNum(y)
           THEN NumResult(x, y, NumOf(x) * DenOf(y) + NumOf(y) * DenOf(x),
                          DenOf(x) * DenOf(y))
           ELSE IF x.k = "str" /\ y.k = "str" THEN Done(PyStr(x.s \o y.s))
           ELSE Fail("TypeError")
      [] cls = "Star" ->
           IF IsNum(x) /\ IsNum(y)
           THEN NumResult(x, y, NumOf(x) * NumOf(y), DenOf(x) * DenOf(y))
           ELSE IF x.k = "str" /\ y.k \in {"int", "bool"}
           THEN Done(PyStr(Repeat(x.s, NumOf(y))))
           ELSE IF y.k = "str" /\ x.k \in {"int", "bool"}
           THEN Done(PyStr(Repeat(y.s, NumOf(x))))
           ELSE Fail("TypeError")
      [] cls = "Power" ->
           IF ~(IsNum(x) /\ IsNum(y)) THEN Fail("TypeError")
           ELSE IF DenOf(y) # 1 THEN Fail("Unmodelled")
           ELSE IF NumOf(y) >= 0
           THEN NumResult(x, y, IntPow(NumOf(x), NumOf(y)),
                          IntPow(DenOf(x), NumOf(y)))
           ELSE IF NumOf(x) = 0 THEN Fail("ZeroDivisionError")
           ELSE Done(Frac(IntPow(DenOf(x), -NumOf(y)), IntPow(NumOf(x), -NumOf(y))))
      [] cls = "And" -> Done(IF Truthy(x) THEN y ELSE x)
      [] cls = "Or" -> Done(IF Truthy(x) THEN x ELSE y)
      [] cls = "Equal" -> Done(PyBool(PyEquals(x, y)))
      [] cls = "LowerOrEqual" -> Compare(x, y, FALSE, FALSE)
      [] cls = "LowerThan" -> Compare(x, y, TRUE, FALSE)
      [] cls = "GreaterOrEqual" -> Compare(x, y, FALSE, TRUE)
      [] cls = "GreaterThan" -> Compare(x, y, TRUE, TRUE)
      [] OTHER -> Fail("AttributeError")   \* BinaryOperator has no operate

\* cls.operate(x) of the unary operator classes
operate1(cls, x) ==
    IF cls = "Not" THEN Done(PyBool(~Truthy(x)))
    ELSE Fail("AttributeError")            \* UnaryOperator has no operate

(***************************************************************************)
(* The evaluators.  environment is a function from names to values; d is   *)
(* the depth of the Python call stack, which raises RecursionError beyond  *)
(* MaxDepth.                                                               *)
(***************************************************************************)
MaxDepth == 12

EmptyEnv == [x \in {} |-> Nothing]

\* a dict with one more binding
Bind(environment, name, v) ==
    [x \in DOMAIN environment \cup {name} |->
        IF x = name THEN v ELSE environment[x]]

\* a new dict object holding content: the result is the reference to it
NewDict(content, m) == Ok(Len(m.envs) + 1, [m EXCEPT !.envs = Append(@, content)])

\* environment.copy()
Dict_copy(environment, m) == NewDict(m.envs[environment], m)

\* environment[name] = v
Dict_setitem(environment, name, v, m) ==
    [m EXCEPT !.envs[environment] = Bind(@, name, v)]

\* the same without the copy: the binding goes into the caller's dict
inner_environment_shared(environment, parameter_name, evaluated_argument, m) ==
    Ok(environment, Dict_setitem(environment, parameter_name, evaluated_argument, m))

\* inner_environment = environment.copy();
\* inner_environment[parameter_name] = evaluated_argument
inner_environment(environment, parameter_name, evaluated_argument, m) ==
    LET copy == Dict_copy(environment, m) IN
    Ok(copy.val, Dict_setitem(copy.val, parameter_name, evaluated_argument, copy.m))

Enter(kind, self, m) == [m EXCEPT !.tr = Append(@, <<kind, self.oid>>)]

IsValue(v) == v.k = "expr" /\ v.cls \in ValueClasses

\* Python's == between two objects none of whose classes defines __eq__
PyObjEq(a, b) == IF IsNode(a) /\ IsNode(b) THEN a.oid = b.oid ELSE a = b

\* utils.serialize succeeds: no node of the tree is an UnserializableExpression
RECURSIVE Serializable(_)
Serializable(v) ==
    v.k # "expr" \/
    (v.cls # "Native" /\ \A i \in 1..Len(v.args) : Serializable(v.args[i]))

\* an object that exists already, as an argument of a constructor call
Existing(v) == [k |-> "existing", val |-> v]

\* the tree of constructor calls `shape` (a tree without oids), executed:
\* arguments first, left to right, then the node itself
RECURSIVE Alloc(_, _)
RECURSIVE AllocArgs(_, _, _, _)
AllocArgs(args, i, done, m) ==
    IF i > Len(args) THEN Ok(done, m)
    ELSE LET a == Alloc(args[i], m) IN
         IF a.st # "ok" THEN a
         ELSE AllocArgs(args, i + 1, Append(done, a.val), a.m)

Alloc(shape, m) ==
    IF shape.k = "existing" THEN Ok(shape.val, m)
    ELSE IF shape.k # "expr" THEN Ok(shape, m)
    ELSE LET as == AllocArgs(shape.args, 1, <<>>, m) IN
         IF as.st # "ok" THEN as ELSE New(shape.cls, as.val, as.m)

S(cls, args) == [k |-> "expr", cls |-> cls, args |-> args]
SId(name) == S("Identifier", <<PyStr(name)>>)
SLam(name, body) == S("Lambda", <<SId(name), body>>)
SApp(f, a) == S("Application", <<f, a>>)
SNum(i) == S("Number", <<PyInt(i)>>)
SStr(s) == S("String", <<PyStr(s)>>)
SBool(b) == S("Boolean", <<PyBool(b)>>)
SNull == S("Null", <<>>)

\* the tree Fixed.evaluate_locally returns
FixedShape ==
    LET half == SLam("x", SApp(SId("f"), SApp(SId("x"), SId("x"))))
    IN SLam("f", SApp(half, half))

\* Expression.evaluate_remotely: serialize, send, unserialize the answer
evaluate_remotely(self, environment, m) ==
    LET m1 == Enter("remote", self, m) IN
    IF ~Serializable(self)
    THEN Raise("NotRemotelyEvaluableError", m1)   \* from NotSerializableError
    ELSE IF m.srv = "down" THEN Raise("RpcError", m1)
    ELSE IF m.srv = "null" THEN New("Null", <<>>, m1)
    ELSE New("Number", <<PyInt(0)>>, m1)

\* traverse(input) of TupleDestr.evaluate_locally
RECURSIVE traverse(_, _, _)
traverse(input, key, m) ==
    IF IsA(input, "TupleNil") THEN Ok(NullClass, m)
    ELSE IF IsA(input, "TupleCons") /\ PyObjEq(Attr(input, "key"), key)
    THEN Ok(Attr(input, "value"), m)
    ELSE IF IsA(input, "TupleCons") THEN traverse(Attr(input, "tail"), key, m)
    ELSE Raise("TypeError", m)

RECURSIVE evaluate_locally(_, _, _, _)
RECURSIVE evaluate(_, _, _, _)

\* Expression.evaluate with the two attempts in the other order
evaluate_local_first(self, environment, m, d) ==
    IF ~IsNode(self) THEN Raise("AttributeError", m)
    ELSE IF d >= MaxDepth THEN Raise("RecursionError", m)
    ELSE LET r == evaluate_locally(self, environment, Enter("evaluate", self, m), d + 1)
         IN IF r.st = "NotLocallyEvaluableError"
            THEN evaluate_remotely(self, environment, r.m)
            ELSE r

\* Expression.evaluate with `except Exception` for its handler
evaluate_catch_all(self, environment, m, d) ==
    IF ~IsNode(self) THEN Raise("AttributeError", m)
    ELSE IF d >= MaxDepth THEN Raise("RecursionError", m)
    ELSE LET r == evaluate_remotely(self, environment, Enter("evaluate", self, m))
         IN IF r.st # "ok"
            THEN evaluate_locally(self, environment, r.m, d + 1)
            ELSE r

\* Expression.evaluate
evaluate(self, environment, m, d) ==
    IF ~IsNode(self) THEN Raise("AttributeError", m)
    ELSE IF d >= MaxDepth THEN Raise("RecursionError", m)
    ELSE LET r == evaluate_remotely(self, environment, Enter("evaluate", self, m))
         IN IF r.st = "NotRemotelyEvaluableError"
            THEN evaluate_locally(self, environment, r.m, d + 1)
            ELSE r

BinaryOperator_evaluate_locally(self, environment, m, d) ==
    LET l == evaluate_locally(Attr(self, "left"), environment, m, d) IN
    IF l.st # "ok" THEN l
    ELSE LET r == evaluate_locally(Attr(self, "right"), environment, l.m, d) IN
         IF r.st # "ok" THEN r
         ELSE IF ~IsValue(l.val) \/ ~IsValue(r.val)
         THEN Raise("NotLocallyEvaluableError", r.m)
         ELSE IF l.val.cls = "Null" \/ r.val.cls = "Null"
         THEN Raise("AttributeError", r.m)       \* Null has no value
         ELSE LET o == operate(self.cls, Attr(l.val, "value"), Attr(r.val, "value"))
              IN IF o.st # "ok" THEN Raise(o.st, r.m) ELSE encode(o.val, r.m)

UnaryOperator_evaluate_locally(self, environment, m, d) ==
    LET e == evaluate_locally(Attr(self, "element"), environment, m, d) IN
    IF e.st # "ok" THEN e
    ELSE IF ~IsValue(e.val) THEN Raise("NotLocallyEvaluableError", e.m)
    ELSE IF e.val.cls = "Null" THEN Raise("AttributeError", e.m)
    ELSE LET o == operate1(self.cls, Attr(e.val, "value"))
         IN IF o.st # "ok" THEN Raise(o.st, e.m) ELSE encode(o.val, e.m)

Application_evaluate_locally(self, environment, m, d) ==
    LET a == evaluate_locally(Attr(self, "argument"), environment, m, d) IN
    IF a.st # "ok" THEN a
    ELSE LET f == evaluate_locally(Attr(self, "function"), environment, a.m, d) IN
         IF f.st # "ok" THEN f
         ELSE IF IsA(f.val, "Native") /\ Attr(f.val, "value").k = "func"
         THEN Raise("AttributeError", f.m)       \* base has no encode
         ELSE IF IsA(f.val, "Lambda")
         THEN Then(inner_environment(environment,
                                     Attr(Attr(f.val, "parameter"), "name").s,
                                     a.val, f.m),
                   LAMBDA inner :
                       evaluate_locally(Attr(f.val, "body"), inner.val, inner.m, d))
         ELSE Raise("TypeError", f.m)

\* Conditional.evaluate_locally evaluating both branches before it chooses
Conditional_evaluate_eagerly(self, environment, m, d) ==
    LET c == evaluate_locally(Attr(self, "condition"), environment, m, d) IN
    IF c.st # "ok" THEN c
    ELSE LET t == evaluate_locally(Attr(self, "on_true"), environment, c.m, d)
             f == evaluate_locally(Attr(self, "on_false"), environment, t.m, d)
         IN IF ~IsA(c.val, "Boolean") THEN Raise("TypeError", f.m)
            ELSE IF Attr(c.val, "value").b THEN [t EXCEPT !.m = f.m]
            ELSE f

\* Conditional.evaluate_locally
Conditional_evaluate_locally(self, environment, m, d) ==
    LET c == evaluate_locally(Attr(self, "condition"), environment, m, d) IN
    IF c.st # "ok" THEN c
    ELSE IF ~IsA(c.val, "Boolean") THEN Raise("TypeError", c.m)
    ELSE IF Attr(c.val, "value").b
    THEN evaluate_locally(Attr(self, "on_true"), environment, c.m, d)
    ELSE evaluate_locally(Attr(self, "on_false"), environment, c.m, d)

ListCons_evaluate_locally(self, environment, m, d) ==
    LET h == evaluate(Attr(self, "head"), environment, m, d) IN
    IF h.st # "ok" THEN h
    ELSE LET t == evaluate(Attr(self, "tail"), environment, h.m, d) IN
         IF t.st # "ok" THEN t ELSE New("ListCons", <<h.val, t.val>>, t.m)

ListDestr_evaluate_locally(self, environment, m, d) ==
    LET input == evaluate(Attr(self, "input"), environment, m, d) IN
    IF input.st # "ok" THEN input
    ELSE IF IsA(input.val, "ListNil")
    THEN evaluate(Attr(self, "on_nil"), environment, input.m, d)
    ELSE IF IsA(input.val, "ListCons")
    THEN LET c == evaluate(Attr(self, "on_cons"), environment, input.m, d) IN
         IF c.st # "ok" THEN c
         ELSE LET a1 == New("Application", <<c.val, Attr(input.val, "head")>>, c.m) IN
              IF a1.st # "ok" THEN a1
              ELSE LET a2 == New("Application",
                                 <<a1.val, Attr(input.val, "tail")>>, a1.m) IN
                   IF a2.st # "ok" THEN a2
                   ELSE evaluate(a2.val, environment, a2.m, d)
    ELSE Raise("TypeError", input.m)

TupleCons_evaluate_locally(self, environment, m, d) ==
    LET key == evaluate_locally(Attr(self, "key"), environment, m, d) IN
    IF key.st # "ok" THEN key
    ELSE LET v == evaluate_locally(Attr(self, "value"), environment, key.m, d) IN
         IF v.st # "ok" THEN v
         ELSE LET t == evaluate_locally(Attr(self, "tail"), environment, v.m, d) IN
              IF t.st # "ok" THEN t
              ELSE New("TupleCons", <<key.val, v.val, t.val>>, t.m)

TupleDestr_evaluate_locally(self, environment, m, d) ==
    LET input == evaluate_locally(Attr(self, "input"), environment, m, d) IN
    IF input.st # "ok" THEN input
    ELSE LET key == evaluate_locally(Attr(self, "key"), environment, input.m, d) IN
         IF key.st # "ok" THEN key
         ELSE IF ~IsA(key.val, "String") THEN Ok(NullClass, key.m)
         ELSE traverse(input.val, key.val, key.m)

\* self.evaluate_locally(environment), dispatched on the class of self
evaluate_locally(self, environment, m0, d0) ==
    IF ~IsNode(self) THEN Raise("TypeError", m0)  \* a method called on the class
    ELSE IF d0 >= MaxDepth THEN Raise("RecursionError", m0)
    ELSE
    LET m == Enter("local", self, m0)
        d == d0 + 1
        cls == self.cls
    IN CASE cls \in ValueClasses \cup {"Lambda", "ListNil", "TupleNil", "Native"} ->
              Ok(self, m)
         [] cls = "Identifier" ->
              IF Attr(self, "name").s \in DOMAIN m.envs[environment]
              THEN Ok(m.envs[environment][Attr(self, "name").s], m)
              ELSE Ok(self, m)
         [] cls = "Fixed" -> Alloc(FixedShape, m)
         [] cls = "Application" -> Application_evaluate_locally(self, environment, m, d)
         [] cls = "Conditional" -> Conditional_evaluate_locally(self, environment, m, d)
         [] cls = "ListCons" -> ListCons_evaluate_locally(self, environment, m, d)
         [] cls = "ListDestr" -> ListDestr_evaluate_locally(self, environment, m, d)
         [] cls = "TupleCons" -> TupleCons_evaluate_locally(self, environment, m, d)
         [] cls = "TupleDestr" -> TupleDestr_evaluate_locally(self, environment, m, d)
         [] cls \in UnaryClasses \cup {"UnaryOperator"} ->
              UnaryOperator_evaluate_locally(self, environment, m, d)
         [] cls \in BinaryClasses \cup {"BinaryOperator"} ->
              BinaryOperator_evaluate_locally(self, environment, m, d)
         [] cls \in OperatorClasses -> Raise("NotYetImplementedError", m)
         [] cls = "Database" -> Raise("NotLocallyEvaluableError", m)
         [] cls = "Table" ->
              Raise("TypeError", m)   \* self.evaluate_remotely() lacks its argument

(***************************************************************************)
(* qir/decompile.py.  A code object is its co_name, co_varnames,           *)
(* co_argcount and the list dis.get_instructions gives; a Decompiler dc is *)
(* its blocks (a block's index is its position, from 0), block_mapping and *)
(* ordering, together with the machine m and the status st of the run.     *)
(* A loop block holds the Decompiler of its body in its field decompiler.   *)
(***************************************************************************)
NORMAL_FLOW == 0
JUMP_FLOW == 1

JUMP_OPNAMES == {"JUMP_FORWARD", "JUMP_ABSOLUTE", "CONTINUE_LOOP"}
BRANCH_POP_OPNAMES == {"POP_JUMP_IF_TRUE", "POP_JUMP_IF_FALSE"}
BRANCH_MAY_POP_OPNAMES == {"JUMP_IF_TRUE_OR_POP", "JUMP_IF_FALSE_OR_POP"}
BRANCH_OPNAMES == BRANCH_POP_OPNAMES \cup BRANCH_MAY_POP_OPNAMES

Instruction(offset, opname, argval, is_jump_target) ==
    [offset |-> offset, opname |-> opname, argval |-> argval,
     is_jump_target |-> is_jump_target]

Code(co_name, co_varnames, co_argcount, instructions) ==
    [co_name |-> co_name, co_varnames |-> co_varnames,
     co_argcount |-> co_argcount, instructions |-> instructions]

\* block.next is None; the attribute next_jumped does not exist
NoBlock == -1
NoAttribute == -2

Decompiler(m) ==
    [blocks |-> <<>>, block_mapping |-> [o \in {} |-> 0], ordering |-> <<>>,
     comprehension_mode |-> FALSE, m |-> m, st |-> "ok",
     \* the list objects made for the stacks of the blocks so far, and what
     \* the list the caller of execute passed holds now: list 0
     lists |-> 0, starting_stack |-> <<>>]

Failed(dc, err) == [dc EXCEPT !.st = err]

\* Block.add
Block_add(block, instruction) ==
    [block EXCEPT
        !.instructions = IF block.contains_return THEN @ ELSE Append(@, instruction),
        !.contains_return = @ \/ instruction.opname = "RETURN_VALUE",
        !.contains_append = @ \/ instruction.opname \in {"LIST_APPEND", "SET_ADD", "MAP_ADD"}]

\* self.context.block_mapping[instruction.offset] = self, of Block.add
Mapped(block_mapping, offset, index) ==
    [o \in DOMAIN block_mapping \cup {offset} |->
        IF o = offset THEN index ELSE block_mapping[o]]

\* Block.__init__ of a block of class type, appended to dc.blocks
Block_init(dc, type) ==
    LET index == Len(dc.blocks)
        block == [type |-> type, index |-> index, instructions |-> <<>>,
                  instruction |-> Nothing, next |-> NoBlock,
                  next_jumped |-> NoAttribute, predecessors |-> <<>>,
                  contains_return |-> FALSE, contains_append |-> FALSE,
                  returns |-> PyNone, has_stack |-> FALSE, stack |-> <<>>,
                  stack_id |-> NoAttribute,
                  bindings |-> <<>>, expression |-> Nothing,
                  decompiler |-> Nothing, loop_placeholder |-> NoAttribute,
                  after_placeholder |-> NoAttribute, iterator |-> Nothing]
        linked == IF index > 0 THEN [dc.blocks EXCEPT ![index].next = index]
                  ELSE dc.blocks
    IN [dc EXCEPT !.blocks = Append(linked, block)]

\* Block.add without the mapping of an instruction it does not keep
AddToCurrent_kept_only(dc, instruction) ==
    LET i == Len(dc.blocks) IN
    [dc EXCEPT !.blocks[i] = Block_add(@, instruction),
               !.block_mapping = IF dc.blocks[i].contains_return THEN @
                                 ELSE Mapped(@, instruction.offset, i - 1)]

\* self.current_block.add(instruction)
AddToCurrent(dc, instruction) ==
    LET i == Len(dc.blocks) IN
    [dc EXCEPT !.blocks[i] = Block_add(@, instruction),
               !.block_mapping = Mapped(@, instruction.offset, i - 1)]

\* JumpBlock.__init__ and BaseBranchBlock.__init__, appended to dc.blocks
SetInstruction(dc, instruction) ==
    [dc EXCEPT !.blocks[Len(dc.blocks)].instruction = instruction]

InstructionBlock_init(dc, type, instruction) ==
    SetInstruction(AddToCurrent(Block_init(dc, type), instruction), instruction)

BRANCH_TYPES == {"BranchBlock", "ForIterBlock"}
LOOP_TYPES == {"WhileLoopBlock", "ForLoopBlock", "ComprehensionLoopBlock"}

\* WhileLoopBlock.__init__: del self.instructions[0]
WhileLoopBlock_init(dc, instruction) ==
    [InstructionBlock_init(dc, "WhileLoopBlock", instruction)
        EXCEPT !.blocks[Len(dc.blocks) + 1].instructions = Tail(@)]

\* instruction.offset < ignore_until, ignore_until being False or an argval
Below(offset, ignore_until) ==
    IF ignore_until.k = "int" THEN offset < ignore_until.i
    ELSE ignore_until.k = "bool" /\ ignore_until.b /\ offset < 1

\* the first loop of build_graph, from instruction i on
RECURSIVE build_graph_loop(_, _, _, _, _, _)
build_graph_loop(dc, instructions, i, force_new, ignore_loop, ignore_until) ==
    IF i > Len(instructions) THEN dc
    ELSE
    LET instruction == instructions[i]
        opname == instruction.opname
    IN IF ignore_until.k \notin {"int", "bool"}
       THEN Failed(dc, "TypeError")             \* an int compared with None
       ELSE IF Below(instruction.offset, ignore_until)
       THEN build_graph_loop(AddToCurrent(dc, instruction), instructions, i + 1,
                             force_new, ignore_loop, ignore_until)
       ELSE IF opname = "FOR_ITER" /\ (~ignore_loop \/ i > 1)
       THEN build_graph_loop(
                InstructionBlock_init(dc, IF dc.comprehension_mode
                                          THEN "ComprehensionLoopBlock"
                                          ELSE "ForLoopBlock", instruction),
                instructions, i + 1, TRUE, ignore_loop, instruction.argval)
       ELSE IF opname = "SETUP_LOOP" /\ i = Len(instructions)
       THEN Failed(dc, "IndexError")            \* instructions[i + 1]
       ELSE IF /\ opname = "SETUP_LOOP"
               /\ instructions[i + 1].opname # "FOR_ITER"
               /\ instructions[i + 1].is_jump_target
               /\ (~ignore_loop \/ i > 1)
       THEN build_graph_loop(WhileLoopBlock_init(dc, instruction), instructions, i + 1,
                             TRUE, ignore_loop, instruction.argval)
       ELSE IF opname \in JUMP_OPNAMES
       THEN build_graph_loop(InstructionBlock_init(dc, "JumpBlock", instruction),
                             instructions, i + 1, TRUE, ignore_loop, ignore_until)
       ELSE IF opname \in BRANCH_OPNAMES
       THEN build_graph_loop(InstructionBlock_init(dc, "BranchBlock", instruction),
                             instructions, i + 1, TRUE, ignore_loop, ignore_until)
       ELSE IF opname = "FOR_ITER"
       THEN build_graph_loop(InstructionBlock_init(dc, "ForIterBlock", instruction),
                             instructions, i + 1, TRUE, ignore_loop, ignore_until)
       ELSE IF instruction.is_jump_target \/ force_new
       THEN build_graph_loop(
                AddToCurrent(Block_init(dc, "LinearBlock"), instruction),
                instructions, i + 1, FALSE, ignore_loop, ignore_until)
       ELSE build_graph_loop(AddToCurrent(dc, instruction), instructions, i + 1,
                             FALSE, ignore_loop, ignore_until)

\* block.successors
successors(block) ==
    IF block.type \in BRANCH_TYPES
    THEN <<<<block.next, NORMAL_FLOW>>, <<block.next_jumped, JUMP_FLOW>>>>
    ELSE IF block.next # NoBlock THEN <<<<block.next, NORMAL_FLOW>>>>
    ELSE <<>>

\* the block instruction.argval is mapped to, NoAttribute when it is no key
JumpTarget(dc, instruction) ==
    IF instruction.argval.k = "int" /\ instruction.argval.i \in DOMAIN dc.block_mapping
    THEN dc.block_mapping[instruction.argval.i]
    ELSE NoAttribute

\* Block.close that leaves the edge of a returning block in place
Block_close_linked(block) == block

\* Block.close
Block_close(block) ==
    IF block.contains_return THEN [block EXCEPT !.next = NoBlock] ELSE block

\* block.close() for the blocks from index i on
RECURSIVE close_loop(_, _)
close_loop(dc, i) ==
    IF i >= Len(dc.blocks) THEN dc
    ELSE
    LET block == dc.blocks[i + 1]
        closed == Block_close(block)
    IN IF block.type \in {"LinearBlock"} \cup LOOP_TYPES
       THEN close_loop([dc EXCEPT !.blocks[i + 1] = closed], i + 1)
       ELSE IF JumpTarget(dc, block.instruction) = NoAttribute
       THEN Failed(dc, "KeyError")
       ELSE IF block.type = "JumpBlock"
       THEN close_loop([dc EXCEPT !.blocks[i + 1] =
                           [closed EXCEPT !.next = JumpTarget(dc, block.instruction)]],
                       i + 1)
       ELSE close_loop([dc EXCEPT !.blocks[i + 1] =
                           [closed EXCEPT !.next_jumped =
                               JumpTarget(dc, block.instruction)]],
                       i + 1)

\* successor.predecessors.append((block, edge_type)) for the successors of
\* block i from the k-th on, then for the blocks after i
RECURSIVE predecessors_loop(_, _, _)
predecessors_loop(dc, i, k) ==
    IF i >= Len(dc.blocks) THEN dc
    ELSE
    LET succ == successors(dc.blocks[i + 1]) IN
    IF k > Len(succ) THEN predecessors_loop(dc, i + 1, 1)
    ELSE IF succ[k][1] = NoBlock THEN Failed(dc, "AttributeError")
    ELSE predecessors_loop(
             [dc EXCEPT !.blocks[succ[k][1] + 1].predecessors =
                            Append(@, <<i, succ[k][2]>>)],
             i, k + 1)

\* Decompiler.build_graph
build_graph(dc, instructions, ignore_loop) ==
    Then(Then(build_graph_loop(dc, instructions, 1, TRUE, ignore_loop, PyBool(FALSE)),
              LAMBDA built : close_loop(built, 0)),
         LAMBDA closed : predecessors_loop(closed, 0, 1))

Reversed(seq) == [i \in 1..Len(seq) |-> seq[Len(seq) + 1 - i]]

\* visit(block) of sort_blocks; s is [marked, ordering, st]
RECURSIVE visit(_, _, _)
RECURSIVE visit_successors(_, _, _, _)

\* the loop of visit following the first successor only
visit_first_successor(blocks, succ, k, s) ==
    IF k > 1 \/ k > Len(succ) \/ s.st # "ok" THEN s
    ELSE IF succ[k][1] < 0 THEN [s EXCEPT !.st = "AttributeError"]
    ELSE IF succ[k][1] \in s.marked THEN s
    ELSE visit(blocks, succ[k][1], s)

visit_successors(blocks, succ, k, s) ==
    IF k > Len(succ) \/ s.st # "ok" THEN s
    ELSE IF succ[k][1] < 0 THEN [s EXCEPT !.st = "AttributeError"]
    ELSE IF succ[k][1] \in s.marked THEN visit_successors(blocks, succ, k + 1, s)
    ELSE visit_successors(blocks, succ, k + 1, visit(blocks, succ[k][1], s))

visit(blocks, index, s) ==
    Then(visit_successors(blocks, successors(blocks[index + 1]), 1,
                          [s EXCEPT !.marked = @ \cup {index}]),
         LAMBDA after : [after EXCEPT !.ordering = Append(@, index)])

\* self.ordering = ordering: the post-order as visit left it
Sorted_post_order(dc, s) ==
    IF s.st # "ok" THEN Failed(dc, s.st)
    ELSE [dc EXCEPT !.ordering = s.ordering]

\* self.ordering = list(reversed(ordering)), s being what visit left
Sorted(dc, s) ==
    IF s.st # "ok" THEN Failed(dc, s.st)
    ELSE [dc EXCEPT !.ordering = Reversed(s.ordering)]

\* Decompiler.sort_blocks
sort_blocks(dc) ==
    IF Len(dc.blocks) = 0 THEN Failed(dc, "IndexError")     \* self.first_block
    ELSE Sorted(dc, visit(dc.blocks, 0,
                          [marked |-> {}, ordering |-> <<>>, st |-> "ok"]))

\* list.remove(item): without the first element equal to item
RemoveFirst(seq, item) ==
    LET at == CHOOSE i \in 1..Len(seq) :
                  seq[i] = item /\ \A j \in 1..(i - 1) : seq[j] # item
    IN SubSeq(seq, 1, at - 1) \o SubSeq(seq, at + 1, Len(seq))

\* the first loop of Block.detach, from the k-th successor on
RECURSIVE detach_successors(_, _, _, _)
detach_successors(dc, i, succ, k) ==
    IF k > Len(succ) THEN dc
    ELSE IF succ[k][1] < 0 THEN Failed(dc, "AttributeError")
    ELSE LET item == <<i, succ[k][2]>>
             preds == dc.blocks[succ[k][1] + 1].predecessors
         IN IF \A j \in 1..Len(preds) : preds[j] # item
            THEN Failed(dc, "ValueError")
            ELSE detach_successors(
                     [dc EXCEPT !.blocks[succ[k][1] + 1].predecessors =
                                    RemoveFirst(@, item)],
                     i, succ, k + 1)

\* the second loop of Block.detach, from the k-th predecessor on
RECURSIVE detach_predecessors(_, _, _)
detach_predecessors(dc, preds, k) ==
    IF k > Len(preds) THEN dc
    ELSE IF preds[k][2] = NORMAL_FLOW
    THEN detach_predecessors([dc EXCEPT !.blocks[preds[k][1] + 1].next = NoBlock],
                             preds, k + 1)
    ELSE detach_predecessors(
             [dc EXCEPT !.blocks[preds[k][1] + 1].next_jumped = NoBlock], preds, k + 1)

\* Block.detach of block i
Block_detach(dc, i) ==
    Then(Then(detach_successors(dc, i, successors(dc.blocks[i + 1]), 1),
              LAMBDA d : detach_predecessors(d, d.blocks[i + 1].predecessors, 1)),
         LAMBDA d : [d EXCEPT !.blocks[i + 1] =
                        [@ EXCEPT !.predecessors = <<>>, !.next = NoBlock,
                                  !.next_jumped = NoBlock]])

InOrdering(dc, i) == \E j \in 1..Len(dc.ordering) : dc.ordering[j] = i

\* Decompiler.detach_unreachable, from block i on
RECURSIVE detach_unreachable_loop(_, _)
detach_unreachable_loop(dc, i) ==
    IF i >= Len(dc.blocks) \/ dc.st # "ok" THEN dc
    ELSE IF InOrdering(dc, i) THEN detach_unreachable_loop(dc, i + 1)
    ELSE detach_unreachable_loop(Block_detach(dc, i), i + 1)

detach_unreachable(dc) == detach_unreachable_loop(dc, 0)

\* the rule with the two edges of a FOR_ITER exchanged
PredecessorStack_exchanged(predecessor, edge_type) ==
    LET name == predecessor.instruction.opname IN
    IF /\ predecessor.type \in BRANCH_TYPES
       /\ ~( \/ name = "FOR_ITER" /\ edge_type = JUMP_FLOW
             \/ name \in BRANCH_MAY_POP_OPNAMES /\ edge_type = JUMP_FLOW )
    THEN SubSeq(predecessor.stack, 1, Len(predecessor.stack) - 1)
    ELSE predecessor.stack

\* the stack a predecessor hands over along an edge, in Block.execute
PredecessorStack(predecessor, edge_type) ==
    LET name == predecessor.instruction.opname IN
    IF /\ predecessor.type \in BRANCH_TYPES
       /\ ~( \/ name = "FOR_ITER" /\ edge_type = NORMAL_FLOW
             \/ name \in BRANCH_MAY_POP_OPNAMES /\ edge_type = JUMP_FLOW )
    THEN SubSeq(predecessor.stack, 1, Len(predecessor.stack) - 1)
    ELSE predecessor.stack

\* self.stack = the list object id, which holds contents
Refers(dc, i, id, contents) ==
    [dc EXCEPT !.blocks[i + 1].stack = contents,
               !.blocks[i + 1].has_stack = TRUE,
               !.blocks[i + 1].stack_id = id]

\* self.stack = a list made just now: a slice, or the result of a call
OwnList(dc, i, contents) ==
    Refers([dc EXCEPT !.lists = @ + 1], i, dc.lists + 1, contents)

\* the list object self.stack of block i refers to now holds contents, for
\* every block whose stack is that object, and for the caller if it is the
\* list the caller passed
InPlace(dc, i, contents) ==
    [dc EXCEPT
        !.blocks = [j \in 1..Len(dc.blocks) |->
                       IF /\ dc.blocks[j].has_stack
                          /\ dc.blocks[j].stack_id = dc.blocks[i + 1].stack_id
                       THEN [dc.blocks[j] EXCEPT !.stack = contents]
                       ELSE dc.blocks[j]],
        !.starting_stack = IF dc.blocks[i + 1].stack_id = 0 THEN contents ELSE @]

\* Block.execute without its copies: starting_stack and predecessor.stack
\* themselves where the code has starting_stack[:] and predecessor.stack[:]
Block_execute_shared(dc, i, starting_stack) ==
    LET block == dc.blocks[i + 1]
        preds == block.predecessors
        stacks == [j \in 1..Len(preds) |->
                      PredecessorStack(dc.blocks[preds[j][1] + 1], preds[j][2])]
    IN IF \E j \in 1..Len(preds) : ~dc.blocks[preds[j][1] + 1].has_stack
       THEN Failed(dc, "AttributeError")
       ELSE IF Len(stacks) < 1
       THEN Refers(dc, i, 0, starting_stack)
       ELSE IF \E j \in 2..Len(stacks) : stacks[1] # stacks[j]
       THEN Failed(dc, "PredecessorStacksError")
       ELSE IF Len(stacks[1]) = Len(dc.blocks[preds[1][1] + 1].stack)
       THEN Refers(dc, i, dc.blocks[preds[1][1] + 1].stack_id, stacks[1])
       ELSE OwnList(dc, i, stacks[1])

\* Block.execute of block i: the stack the block starts from, a copy of
\* starting_stack or of what its first predecessor hands over
Block_execute(dc, i, starting_stack) ==
    LET block == dc.blocks[i + 1]
        preds == block.predecessors
        stacks == [j \in 1..Len(preds) |->
                      PredecessorStack(dc.blocks[preds[j][1] + 1], preds[j][2])]
    IN IF \E j \in 1..Len(preds) : ~dc.blocks[preds[j][1] + 1].has_stack
       THEN Failed(dc, "AttributeError")
       ELSE IF Len(stacks) < 1
       THEN OwnList(dc, i, starting_stack)
       ELSE IF \E j \in 2..Len(stacks) : stacks[1] # stacks[j]
       THEN Failed(dc, "PredecessorStacksError")
       ELSE OwnList(dc, i, stacks[1])

BINARY_OPERATIONS ==
    [o \in {"BINARY_POWER", "BINARY_MULTIPLY", "BINARY_TRUE_DIVIDE", "BINARY_MODULO",
            "BINARY_ADD", "BINARY_SUBTRACT"} |->
        CASE o = "BINARY_POWER" -> "Power" [] o = "BINARY_MULTIPLY" -> "Star"
          [] o = "BINARY_TRUE_DIVIDE" -> "Div" [] o = "BINARY_MODULO" -> "Mod"
          [] o = "BINARY_ADD" -> "Plus" [] o = "BINARY_SUBTRACT" -> "Minus"]

INPLACE_OPERATIONS ==
    [o \in {"INPLACE_POWER", "INPLACE_MULTIPLY", "INPLACE_TRUE_DIVIDE",
            "INPLACE_MODULO", "INPLACE_ADD", "INPLACE_SUBTRACT"} |->
        CASE o = "INPLACE_POWER" -> "Power" [] o = "INPLACE_MULTIPLY" -> "Star"
          [] o = "INPLACE_TRUE_DIVIDE" -> "Div" [] o = "INPLACE_MODULO" -> "Mod"
          [] o = "INPLACE_ADD" -> "Plus" [] o = "INPLACE_SUBTRACT" -> "Minus"]

COMPARE_OPERATIONS ==
    [o \in {"==", "<=", "<"} |->
        CASE o = "==" -> "Equal" [] o = "<=" -> "LowerOrEqual" [] o = "<" -> "LowerThan"]

\* The locals of LinearBlock.execute while it runs: x.stack, x.bindings,
\* x.returns (self.returns), x.key (the local `key`, Nothing while unbound),
\* the machine x.m and the status x.st.
Throw(x, err) == [x EXCEPT !.st = err]

\* the position of stack[index], 0 when the index is out of range
At(stack, index) ==
    LET pos == IF index < 0 THEN Len(stack) + index + 1 ELSE index + 1
    IN IF pos \in 1..Len(stack) THEN pos ELSE 0

\* how many elements stack[:pos] keeps
Cut(stack, pos) ==
    IF pos < 0 THEN (IF Len(stack) + pos < 0 THEN 0 ELSE Len(stack) + pos)
    ELSE IF pos > Len(stack) THEN Len(stack) ELSE pos

Top(x) == x.stack[Len(x.stack)]
Pop(x) == [x EXCEPT !.stack = SubSeq(@, 1, Len(@) - 1)]
Push(x, v) == [x EXCEPT !.stack = Append(@, v)]

\* stack.append(cls(*args)), the constructor raising or not
PushResult(x, e) ==
    IF e.st # "ok" THEN Throw(x, e.st)
    ELSE [x EXCEPT !.stack = Append(@, e.val), !.m = e.m]

PushNew(x, cls, args) == PushResult(x, New(cls, args, x.m))

\* stack[at] = e, the constructor call e raising or not
StoreResult(x, at, e) ==
    IF e.st # "ok" THEN Throw(x, e.st)
    ELSE [x EXCEPT !.stack[at] = e.val, !.m = e.m]

\* right = stack.pop(); left = stack.pop(); stack.append(cls(left, right))
BinaryInstruction(x, cls) ==
    IF Len(x.stack) < 2 THEN Throw(x, "IndexError")
    ELSE LET right == Top(x)
             left == Top(Pop(x))
         IN PushNew(Pop(Pop(x)), cls, <<left, right>>)

\* the loop `for i in range(count): inner = Application(inner, stack.pop())`
RECURSIVE ApplyLoop(_, _, _)
ApplyNext(x, e, count) ==
    IF e.st # "ok" THEN Throw(x, e.st)
    ELSE ApplyLoop([x EXCEPT !.m = e.m], e.val, count - 1)

ApplyLoop(x, inner, count) ==
    IF count <= 0 THEN Push(Pop(x), inner)      \* stack.pop(); stack.append(inner)
    ELSE ApplyNext(Pop(x), New("Application", <<inner, Top(x)>>, x.m), count)

\* the loop `for value in values: container = ListCons(value, container)`
RECURSIVE ListLoop(_, _, _, _)
ListNext(x, values, i, e) ==
    IF e.st # "ok" THEN Throw(x, e.st)
    ELSE ListLoop([x EXCEPT !.m = e.m], values, i + 1, e.val)

ListLoop(x, values, i, container) ==
    IF i > Len(values) THEN Push(x, container)
    ELSE ListNext(x, values, i, New("ListCons", <<values[i], container>>, x.m))

\* the loop over zip(values[0::2], values[1::2])
RECURSIVE MapLoop(_, _, _, _)
MapNext(x, values, i, e) ==
    IF e.st # "ok" THEN Throw(x, e.st)
    ELSE MapLoop([x EXCEPT !.m = e.m], values, i + 2, e.val)

MapLoop(x, values, i, container) ==
    IF i + 1 > Len(values) THEN Push(x, container)
    ELSE MapNext(x, values, i,
                 New("TupleCons", <<values[i], values[i + 1], container>>, x.m))

\* ''.join of the strings of a sequence of str payloads
RECURSIVE Join(_)
Join(values) ==
    IF Len(values) = 0 THEN ""
    ELSE Attr(values[1], "value").s \o Join(Tail(values))

\* x.value exists: x is an instance with a field named value
HasValue(v) ==
    IsNode(v) /\ \E i \in 1..Len(fields(v.cls)) : fields(v.cls)[i][1] = "value"

\* bindings.append((name, value)), value being the constructor call e
Bound(x, name, e) ==
    IF e.st # "ok" THEN Throw(x, e.st)
    ELSE [x EXCEPT !.bindings = Append(@, <<name, e.val>>), !.m = e.m]

\* stack = stack[:pos]: the local names a new list from here on, and the
\* list self.stack refers to is left as it is at this point
Rebound(x, kept) ==
    [x EXCEPT !.stack = SubSeq(@, 1, kept),
              !.left = IF @ = <<>> THEN <<x.stack>> ELSE @]

\* the stack without its last count elements, and container on top
Built(x, kept, e, Loop(_, _)) ==
    IF e.st # "ok" THEN Throw(x, e.st)
    ELSE Loop([Rebound(x, kept) EXCEPT !.m = e.m], e.val)

\* one turn of the loop of LinearBlock.execute
ExecuteInstruction(x, instruction) ==
    LET name == instruction.opname
        argval == instruction.argval
        stack == x.stack
        n == Len(x.stack)
        count == IF argval.k = "int" THEN argval.i ELSE 0
        kept == Cut(stack, -count)
        values == SubSeq(stack, kept + 1, n)
        rest == Rebound(x, kept)
    IN
    CASE name \in {"NOP", "POP_BLOCK", "LOAD_CLOSURE", "SETUP_LOOP", "GET_ITER"} -> x
      [] name = "POP_TOP" -> IF n < 1 THEN Throw(x, "IndexError") ELSE Pop(x)
      [] name = "ROT_TWO" ->
           IF n < 2 THEN Throw(x, "IndexError")
           ELSE [x EXCEPT !.stack[n] = stack[n - 1], !.stack[n - 1] = stack[n]]
      [] name = "ROT_THREE" ->
           IF n < 3 THEN Throw(x, "IndexError")
           ELSE [x EXCEPT !.stack[n] = stack[n - 1], !.stack[n - 1] = stack[n - 2],
                          !.stack[n - 2] = stack[n]]
      [] name = "DUP_TOP" -> IF n < 1 THEN Throw(x, "IndexError") ELSE Push(x, Top(x))
      [] name = "DUP_TOP_TWO" ->
           IF n < 2 THEN Throw(x, "IndexError")
           ELSE Push(Push(x, stack[n - 1]), stack[n])
      [] name \in DOMAIN BINARY_OPERATIONS -> BinaryInstruction(x, BINARY_OPERATIONS[name])
      [] name \in DOMAIN INPLACE_OPERATIONS ->
           BinaryInstruction(x, INPLACE_OPERATIONS[name])
      [] name = "COMPARE_OP" /\ argval.k = "str" /\ argval.s \in DOMAIN COMPARE_OPERATIONS ->
           BinaryInstruction(x, COMPARE_OPERATIONS[argval.s])
      [] name = "BINARY_SUBSCR" ->
           IF n < 2 THEN Throw(x, "IndexError")
           ELSE PushNew([Pop(Pop(x)) EXCEPT !.key = stack[n]], "TupleDestr",
                        <<stack[n - 1], stack[n]>>)
      [] name = "STORE_SUBSCR" ->
           IF n < 3 THEN Throw(x, "IndexError")
           ELSE PushNew([Pop(Pop(Pop(x))) EXCEPT !.key = stack[n]], "TupleCons",
                        <<stack[n], stack[n - 2], stack[n - 1]>>)
      [] name = "DELETE_SUBSCR" ->
           IF n < 2 THEN Throw(x, "IndexError")
           ELSE IF x.key = Nothing THEN Throw(Pop(Pop(x)), "UnboundLocalError")
           ELSE PushResult(Pop(Pop(x)),
                           Then(New("Null", <<>>, x.m),
                                LAMBDA null : New("TupleCons",
                                                  <<x.key, null.val, stack[n]>>,
                                                  null.m)))
      [] name \in {"RETURN_VALUE", "YIELD_VALUE"} ->
           IF n < 1 THEN Throw(x, "IndexError")
           ELSE [Pop(x) EXCEPT !.returns = stack[n]]
      [] name \in {"LIST_APPEND", "SET_ADD"} ->
           IF n < 1 THEN Throw(x, "IndexError")
           ELSE IF argval.k # "int" THEN Throw(Pop(x), "TypeError")
           ELSE LET at == At(Pop(x).stack, -argval.i) IN
                IF at = 0 THEN Throw(Pop(x), "IndexError")
                ELSE StoreResult(Pop(x), at,
                                 New("ListCons", <<stack[n], stack[at]>>, x.m))
      [] name = "MAP_ADD" ->
           IF n < 2 THEN Throw(x, "IndexError")
           ELSE IF argval.k # "int" THEN Throw(Pop(Pop(x)), "TypeError")
           ELSE LET y == [Pop(Pop(x)) EXCEPT !.key = stack[n]]
                    at == At(y.stack, -argval.i)
                IN IF at = 0 THEN Throw(y, "IndexError")
                   ELSE StoreResult(y, at,
                                    New("TupleCons",
                                        <<stack[n], stack[n - 1], stack[at]>>, x.m))
      [] name = "LOAD_CONST" ->
           PushResult(x, encode(argval, x.m))
      [] name \in {"LOAD_NAME", "LOAD_GLOBAL", "LOAD_FAST", "LOAD_DEREF"} ->
           PushNew(x, "Identifier", <<argval>>)
      [] name = "LOAD_ATTR" ->
           IF n < 1 THEN Throw(x, "IndexError")
           ELSE PushResult(Pop(x),
                           Then(New("String", <<argval>>, x.m),
                                LAMBDA key : New("TupleDestr", <<stack[n], key.val>>,
                                                 key.m)))
      [] name \in {"STORE_NAME", "STORE_FAST"} ->
           IF n < 1 THEN Throw(x, "IndexError")
           ELSE [Pop(x) EXCEPT !.bindings = Append(@, <<argval, stack[n]>>)]
      [] name \in {"STORE_GLOBAL", "DELETE_GLOBAL"} -> Throw(x, "NotImplementedError")
      [] name \in {"DELETE_NAME", "DELETE_FAST"} ->
           Bound(x, argval, New("Null", <<>>, x.m))
      [] name = "CALL_FUNCTION" ->
           IF argval.k # "int" THEN Throw(x, "TypeError")
           ELSE IF At(stack, -(argval.i + 1)) = 0 THEN Throw(x, "IndexError")
           ELSE ApplyLoop(x, stack[At(stack, -(argval.i + 1))], argval.i)
      [] name \in {"BUILD_TUPLE", "BUILD_LIST", "BUILD_SET"} ->
           IF argval.k # "int" THEN Throw(x, "TypeError")
           ELSE Built(x, kept, New("ListNil", <<>>, x.m),
                      LAMBDA y, nil : ListLoop(y, values, 1, nil))
      [] name = "BUILD_MAP" ->
           IF argval.k # "int" THEN Throw(x, "TypeError")
           ELSE Built(x, kept, New("TupleNil", <<>>, x.m),
                      LAMBDA y, nil : MapLoop(y, values, 1, nil))
      [] name = "BUILD_STRING" ->
           IF argval.k # "int" THEN Throw(x, "TypeError")
           ELSE IF \E i \in 1..Len(values) : ~HasValue(values[i])
           THEN Throw(rest, "AttributeError")
           ELSE IF \E i \in 1..Len(values) : Attr(values[i], "value").k # "str"
           THEN Throw(rest, "TypeError")
           ELSE PushNew(rest, "String", <<PyStr(Join(values))>>)
      [] name = "MAKE_FUNCTION" ->
           IF argval.k # "int" THEN Throw(x, "TypeError")
           ELSE IF argval.i > 0 THEN Throw(x, "NotYetImplementedError")
           ELSE IF n < 1 THEN Throw(x, "IndexError")
           ELSE Pop(x)
      [] name = "MAKE_CLOSURE" ->
           IF argval.k # "int" THEN Throw(x, "TypeError")
           ELSE IF argval.i > 0 THEN Throw(x, "NotYetImplementedError")
           ELSE IF n < 3 THEN Throw(x, "IndexError")
           ELSE [x EXCEPT !.stack = SubSeq(stack, 1, n - 3) \o <<stack[n - 1]>>]
      [] OTHER -> Throw(x, "NotImplementedError")

\* the loop of LinearBlock.execute over self.instructions, from the i-th on
RECURSIVE ExecuteLoop(_, _, _)
ExecuteLoop(x, instructions, i) ==
    IF i > Len(instructions) \/ x.st # "ok" THEN x
    ELSE ExecuteLoop(ExecuteInstruction(x, instructions[i]), instructions, i + 1)

\* what LinearBlock.execute has done to the lists once its loop is over:
\* the list self.stack referred to was changed in place until the local was
\* rebound, if it was, and self.stack = stack makes the block refer to the
\* list the local names at the end
Stored(dc, i, x) ==
    IF x.left = <<>> THEN InPlace(dc, i, x.stack)
    ELSE OwnList(InPlace(dc, i, x.left[1]), i, x.stack)

\* self.stack = stack; self.bindings = bindings, x being the locals at the end
Executed(dc, i, x) ==
    IF x.st # "ok" THEN [dc EXCEPT !.st = x.st, !.m = x.m]
    ELSE [Stored(dc, i, x) EXCEPT !.blocks[i + 1].bindings = x.bindings,
                                  !.blocks[i + 1].returns = x.returns,
                                  !.m = x.m]

\* LinearBlock.execute of block i
LinearBlock_execute(dc, i, starting_stack) ==
    Then(Block_execute(dc, i, starting_stack),
         LAMBDA d : Executed(d, i,
                             ExecuteLoop([stack |-> d.blocks[i + 1].stack,
                                          left |-> <<>>, bindings |-> <<>>,
                                          returns |-> d.blocks[i + 1].returns,
                                          key |-> Nothing, m |-> d.m, st |-> "ok"],
                                         d.blocks[i + 1].instructions, 1)))

\* self.stack.append(r), r being the outcome of building the new top
StackAppended(dc, i, r) ==
    IF r.st # "ok" THEN [dc EXCEPT !.st = r.st, !.m = r.m]
    ELSE [InPlace(dc, i, Append(dc.blocks[i + 1].stack, r.val)) EXCEPT !.m = r.m]

\* 'cv_' + str(self.instruction.offset)
cv(instruction) == "cv_" \o ToString(instruction.offset)

\* ForIterBlock.execute of block i
ForIterBlock_execute(dc, i, starting_stack) ==
    Then(Block_execute(dc, i, starting_stack),
         LAMBDA d : StackAppended(d, i,
                        New("Identifier", <<PyStr(cv(d.blocks[i + 1].instruction))>>,
                            d.m)))

\* dis.Instruction('AFTER_LOOP', -1, None, None, None, offset, None, True)
AFTER_LOOP(offset) == Instruction(offset, "AFTER_LOOP", PyNone, TRUE)

\* the instructions LoopBlock.execute gives the Decompiler of the loop's body
LoopInstructions(block) ==
    LET instructions ==
            Append(block.instructions, AFTER_LOOP(block.instruction.argval.i))
    IN [j \in 1..Len(instructions) |->
           IF instructions[j].opname = "BREAK_LOOP"
           THEN Instruction(instructions[j].offset, "JUMP_ABSOLUTE",
                            block.instruction.argval, instructions[j].is_jump_target)
           ELSE instructions[j]]

\* Application(Identifier(name), Null())
PlaceholderExpression(name, m) ==
    Then(New("Identifier", <<PyStr(name)>>, m),
         LAMBDA identifier :
             Then(New("Null", <<>>, identifier.m),
                  LAMBDA null : New("Application", <<identifier.val, null.val>>,
                                    null.m)))

\* PlaceholderBlock.__init__, the block being appended to dc.blocks
PlaceholderBlock_init(dc, expression) ==
    [Block_init(dc, "PlaceholderBlock") EXCEPT
        !.blocks[Len(dc.blocks) + 1].expression = expression.val,
        !.m = expression.m]

\* the loop of LoopBlock.execute over previous_predecessors, from the k-th on:
\* the edges into the start block go to the placeholder instead
RECURSIVE loop_edges(_, _, _, _)
loop_edges(blocks, previous_predecessors, k, loop_placeholder) ==
    IF k > Len(previous_predecessors) THEN blocks
    ELSE
    LET predecessor == previous_predecessors[k][1]
        edge_type == previous_predecessors[k][2]
    IN loop_edges(
           IF predecessor < blocks[1].index
           THEN [blocks EXCEPT ![1].predecessors = Append(@, previous_predecessors[k])]
           ELSE IF edge_type = JUMP_FLOW
           THEN [blocks EXCEPT
                    ![predecessor + 1].next_jumped = loop_placeholder,
                    ![loop_placeholder + 1].predecessors =
                        Append(@, <<predecessor, JUMP_FLOW>>)]
           ELSE [blocks EXCEPT
                    ![predecessor + 1].next = loop_placeholder,
                    ![loop_placeholder + 1].predecessors =
                        Append(@, <<predecessor, NORMAL_FLOW>>)],
           previous_predecessors, k + 1, loop_placeholder)

\* the loop placeholder appended with the edges into the start block left
\* as they are
WithLoopPlaceholder_edges_kept(dc) ==
    PlaceholderBlock_init(dc, PlaceholderExpression("on_loop", dc.m))

\* LoopBlock.execute from `loop_placeholder = PlaceholderBlock(..)` down to the
\* end of its first loop
WithLoopPlaceholder(dc) ==
    LET start_block == dc.blocks[1]
        loop_placeholder == Len(dc.blocks)
        placed == PlaceholderBlock_init(dc, PlaceholderExpression("on_loop", dc.m))
    IN [placed EXCEPT
           !.blocks = loop_edges([@ EXCEPT ![1].predecessors = <<>>],
                                 start_block.predecessors, 1, loop_placeholder)]

\* the loop over last_block.predecessors were every edge rewired as a
\* normal one, whatever its type
RECURSIVE after_edges_normal(_, _, _, _)
after_edges_normal(blocks, predecessors, k, after_placeholder) ==
    IF k > Len(predecessors) THEN blocks
    ELSE after_edges_normal(
             [blocks EXCEPT
                 ![after_placeholder + 1].predecessors =
                     Append(@, <<predecessors[k][1], NORMAL_FLOW>>),
                 ![predecessors[k][1] + 1].next = after_placeholder],
             predecessors, k + 1, after_placeholder)

\* the loop of LoopBlock.execute over last_block.predecessors, from the k-th
\* on: the edges into the last block go to the placeholder that replaced it
RECURSIVE after_edges(_, _, _, _)
after_edges(blocks, predecessors, k, after_placeholder) ==
    IF k > Len(predecessors) THEN blocks
    ELSE
    LET predecessor == predecessors[k][1]
        edge_type == predecessors[k][2]
    IN after_edges(
           IF edge_type = JUMP_FLOW
           THEN [blocks EXCEPT
                    ![after_placeholder + 1].predecessors =
                        Append(@, <<predecessor, JUMP_FLOW>>),
                    ![predecessor + 1].next_jumped = after_placeholder]
           ELSE [blocks EXCEPT
                    ![after_placeholder + 1].predecessors =
                        Append(@, <<predecessor, NORMAL_FLOW>>),
                    ![predecessor + 1].next = after_placeholder],
           predecessors, k + 1, after_placeholder)

\* LoopBlock.execute from `after_placeholder = PlaceholderBlock(..)` down to
\* `after_placeholder.next = None`; the block at last_block took the place of
\* the last block before the loop placeholder was appended
WithAfterPlaceholder(dc, last_block) ==
    LET loop_placeholder == Len(dc.blocks) - 1
        predecessors == dc.blocks[last_block + 1].predecessors
        placed == PlaceholderBlock_init(dc, PlaceholderExpression("on_after", dc.m))
        after_placeholder ==
            [placed.blocks[Len(placed.blocks)] EXCEPT !.index = last_block]
        replaced == [SubSeq(placed.blocks, 1, Len(dc.blocks))
                        EXCEPT ![last_block + 1] = after_placeholder]
    IN [placed EXCEPT
           !.blocks = [after_edges(replaced, predecessors, 1, last_block) EXCEPT
                          ![loop_placeholder + 1].next = NoBlock,
                          ![last_block + 1].next = NoBlock]]

\* display_graph(decompiler): block.successors of every block is walked
display_graph(dc) ==
    IF \E j \in 1..Len(dc.blocks) :
          /\ dc.blocks[j].type \in BRANCH_TYPES
          /\ dc.blocks[j].next < 0 \/ dc.blocks[j].next_jumped < 0
    THEN Failed(dc, "AttributeError")           \* None.index
    ELSE dc

\* the Decompiler LoopBlock.execute of block builds for the body of the loop
LoopDecompiler(block, comprehension_mode, m) ==
    Then(Then(Then(build_graph([Decompiler(m) EXCEPT
                                   !.comprehension_mode = comprehension_mode],
                               LoopInstructions(block), TRUE),
                   sort_blocks),
              detach_unreachable),
         LAMBDA decompiler :
             display_graph(
                 WithAfterPlaceholder(WithLoopPlaceholder(decompiler),
                                      Len(decompiler.blocks) - 1)))

\* self.decompiler = decompiler, the machine and the outcome being its own
Nested(dc, i, decompiler) ==
    [dc EXCEPT !.blocks[i + 1].decompiler = decompiler,
               !.blocks[i + 1].loop_placeholder = Len(decompiler.blocks) - 1,
               !.blocks[i + 1].after_placeholder = Len(decompiler.blocks) - 2,
               !.m = decompiler.m, !.st = decompiler.st]

\* LoopBlock.execute of block i
LoopBlock_execute(dc, i, starting_stack) ==
    Then(Block_execute(dc, i, starting_stack),
         LAMBDA d :
             IF d.blocks[i + 1].instruction.argval.k # "int"
             THEN Failed(d, "TypeError")        \* the offset None compared
             ELSE Nested(d, i, LoopDecompiler(d.blocks[i + 1],
                                              d.comprehension_mode, d.m)))

RECURSIVE execute_blocks_loop(_, _, _)
RECURSIVE execute(_, _, _)

\* the decompiler called with the list starting_stack, on the machine m
Passed(decompiler, starting_stack, m) ==
    [decompiler EXCEPT !.starting_stack = starting_stack, !.m = m]

\* self.decompiler.execute_blocks(self.stack[:])
LoopBody_execute(dc, i) ==
    Nested(dc, i, execute_blocks_loop(Passed(dc.blocks[i + 1].decompiler,
                                             dc.blocks[i + 1].stack, dc.m),
                                      1, dc.blocks[i + 1].stack))

\* WhileLoopBlock.execute of block i
WhileLoopBlock_execute(dc, i, starting_stack) ==
    Then(LoopBlock_execute(dc, i, starting_stack), LAMBDA d : LoopBody_execute(d, i))

\* self.iterator = self.stack.pop()
IteratorPopped(dc, i) ==
    LET stack == dc.blocks[i + 1].stack IN
    IF stack = <<>> THEN Failed(dc, "IndexError")
    ELSE [InPlace(dc, i, SubSeq(stack, 1, Len(stack) - 1)) EXCEPT
             !.blocks[i + 1].iterator = stack[Len(stack)]]

\* ForLoopBlock.execute of block i
ForLoopBlock_execute(dc, i, starting_stack) ==
    Then(WhileLoopBlock_execute(dc, i, starting_stack),
         LAMBDA d : IteratorPopped(d, i))

\* find_append_path(start, already_found) of ComprehensionLoopBlock.execute:
\* <<path>>, or <<>> for None; depth is the depth of the recursion
RECURSIVE find_append_path(_, _, _, _)
RECURSIVE find_in_predecessors(_, _, _, _, _)
find_append_path(blocks, start, already_found, depth) ==
    IF depth > Len(blocks) + 1 THEN <<"RecursionError">>
    ELSE IF blocks[start + 1].index = 0
    THEN (IF already_found THEN <<<<start>>>> ELSE <<>>)
    ELSE find_in_predecessors(blocks, start,
                              already_found \/ blocks[start + 1].contains_append,
                              1, depth)

\* its loop over start.predecessors, from the k-th on
find_in_predecessors(blocks, start, already_found, k, depth) ==
    IF k > Len(blocks[start + 1].predecessors) THEN <<>>
    ELSE LET path == find_append_path(blocks, blocks[start + 1].predecessors[k][1],
                                      already_found, depth + 1)
         IN IF path = <<"RecursionError">> THEN path
            ELSE IF path # <<>> THEN <<Append(path[1], start)>>
            ELSE find_in_predecessors(blocks, start, already_found, k + 1, depth)

\* condition = substitute(block.stack[-1], environment): no substitute exists
Substituted(dc, type) ==
    IF dc.st = "ok" /\ type = "BranchBlock" THEN Failed(dc, "NameError") ELSE dc

\* the loop of ComprehensionLoopBlock.execute over the path, from the k-th
\* block on.  The local `environment` is read by substitute only.
RECURSIVE ComprehensionPath_execute(_, _, _, _)
ComprehensionPath_execute(dc, i, path, k) ==
    IF k > Len(path) \/ dc.st # "ok" THEN dc
    ELSE ComprehensionPath_execute(
             Substituted(
                 Nested(dc, i, execute(Passed(dc.blocks[i + 1].decompiler,
                                              dc.blocks[i + 1].stack, dc.m),
                                       path[k], dc.blocks[i + 1].stack)),
                 dc.blocks[i + 1].decompiler.blocks[path[k] + 1].type),
             i, path, k + 1)

\* self.stack[-1] = r, r being the outcome of building the Project
TopReplaced(dc, i, r) ==
    IF r.st # "ok" THEN [dc EXCEPT !.st = r.st, !.m = r.m]
    ELSE IF dc.blocks[i + 1].stack = <<>> THEN [dc EXCEPT !.st = "IndexError", !.m = r.m]
    ELSE [InPlace(dc, i, [dc.blocks[i + 1].stack EXCEPT
                             ![Len(dc.blocks[i + 1].stack)] = r.val])
             EXCEPT !.m = r.m]

\* ComprehensionLoopBlock.execute from `iterator = self.stack.pop()` on
ComprehensionFinished(dc, i, path) ==
    LET block == dc.blocks[i + 1]
        stack == block.stack
        source == block.decompiler.blocks[path[Len(path) - 1] + 1]
        lists == {j \in 1..Len(source.stack) :
                     IsNode(source.stack[j])
                     /\ source.stack[j].cls \in {"ListCons", "Project"}}
    IN IF dc.st # "ok" THEN dc
       ELSE IF stack = <<>> THEN Failed(dc, "IndexError")
       ELSE IF ~source.has_stack THEN Failed(dc, "AttributeError")
       ELSE IF lists = {} THEN Failed(dc, "StopIteration")
       ELSE IF source.stack[CHOOSE j \in lists : \A l \in lists : j <= l].cls = "ListCons"
       THEN Failed(dc, "NameError")             \* substitute(source_list.head, ..)
       ELSE TopReplaced(
                InPlace(dc, i, SubSeq(stack, 1, Len(stack) - 1)), i,
                Alloc(S("Project",
                        <<SLam(cv(block.instruction),
                               Existing(source.stack[CHOOSE j \in lists :
                                                        \A l \in lists : j <= l])),
                          Existing(stack[Len(stack)])>>),
                      dc.m))

\* ComprehensionLoopBlock.execute from `path = find_append_path(..)` on
ComprehensionWalk(dc, i, path) ==
    IF path = <<"RecursionError">> THEN Failed(dc, "RecursionError")
    ELSE IF path = <<>> THEN Failed(dc, "TypeError")       \* len(None)
    ELSE ComprehensionFinished(ComprehensionPath_execute(dc, i, path[1], 1), i, path[1])

\* ComprehensionLoopBlock.execute of block i
ComprehensionLoopBlock_execute(dc, i, starting_stack) ==
    Then(LoopBlock_execute(dc, i, starting_stack),
         LAMBDA d : ComprehensionWalk(d, i,
                        find_append_path(d.blocks[i + 1].decompiler.blocks,
                                         d.blocks[i + 1].loop_placeholder, FALSE, 0)))

\* block.execute(starting_stack) of block index, dispatched on its class
execute(dc, index, starting_stack) ==
    LET type == dc.blocks[index + 1].type IN
    CASE type = "LinearBlock" -> LinearBlock_execute(dc, index, starting_stack)
      [] type = "ForIterBlock" -> ForIterBlock_execute(dc, index, starting_stack)
      [] type = "WhileLoopBlock" -> WhileLoopBlock_execute(dc, index, starting_stack)
      [] type = "ForLoopBlock" -> ForLoopBlock_execute(dc, index, starting_stack)
      [] type = "ComprehensionLoopBlock" ->
           ComprehensionLoopBlock_execute(dc, index, starting_stack)
      [] type = "PlaceholderBlock" -> dc
      [] OTHER -> Block_execute(dc, index, starting_stack)

\* the turns of the loop of execute_blocks after the k-th, which left d: the
\* next block is passed the same list, as it is now
ExecuteNext(d, k) == execute_blocks_loop(d, k + 1, d.starting_stack)

\* Decompiler.execute_blocks, from the k-th index of the ordering on
execute_blocks_loop(dc, k, starting_stack) ==
    IF k > Len(dc.ordering) \/ dc.st # "ok" THEN dc
    ELSE ExecuteNext(execute(dc, dc.ordering[k], starting_stack), k)

execute_blocks(dc, starting_stack) ==
    execute_blocks_loop(Passed(dc, starting_stack, dc.m), 1, starting_stack)

\* the loop of LinearBlock.express were it over self.bindings, not reversed:
\* the first binding added innermost
RECURSIVE WrapBindings_unreversed(_, _, _, _)
WrapBindings_unreversed(bindings, k, inner, m) ==
    IF k < 1 THEN Ok(inner, m)
    ELSE Then(Then(Then(New("Identifier", <<bindings[Len(bindings) - k + 1][1]>>, m),
                        LAMBDA name : New("Lambda", <<name.val, inner>>, name.m)),
                   LAMBDA lambda :
                       New("Application",
                           <<lambda.val, bindings[Len(bindings) - k + 1][2]>>,
                           lambda.m)),
              LAMBDA application :
                  WrapBindings_unreversed(bindings, k - 1, application.val,
                                          application.m))

\* the loop of LinearBlock.express over reversed(self.bindings), from the k-th on
RECURSIVE WrapBindings(_, _, _, _)
WrapBindings(bindings, k, inner, m) ==
    IF k < 1 THEN Ok(inner, m)
    ELSE Then(Then(Then(New("Identifier", <<bindings[k][1]>>, m),
                        LAMBDA name : New("Lambda", <<name.val, inner>>, name.m)),
                   LAMBDA lambda : New("Application", <<lambda.val, bindings[k][2]>>,
                                       lambda.m)),
              LAMBDA application :
                  WrapBindings(bindings, k - 1, application.val, application.m))

\* block.expression of block index, for the block that asks; index is NoBlock
\* when the block asked is None
Expression_of(dc, index) ==
    IF index < 0 THEN Raise("AttributeError", dc.m)
    ELSE IF dc.blocks[index + 1].expression = Nothing THEN Raise("AttributeError", dc.m)
    ELSE Ok(dc.blocks[index + 1].expression, dc.m)

Expressed(dc, i, e) ==
    IF e.st # "ok" THEN [dc EXCEPT !.st = e.st, !.m = e.m]
    ELSE [dc EXCEPT !.blocks[i + 1].expression = e.val, !.m = e.m]

\* LinearBlock.express of block i
LinearBlock_express(dc, i) ==
    LET block == dc.blocks[i + 1] IN
    Expressed(dc, i,
              Then(IF block.returns # PyNone THEN Ok(block.returns, dc.m)
                   ELSE IF block.next = NoBlock THEN New("Null", <<>>, dc.m)
                   ELSE Expression_of(dc, block.next),
                   LAMBDA inner : WrapBindings(block.bindings, Len(block.bindings),
                                               inner.val, inner.m)))

\* JumpBlock.express of block i
JumpBlock_express(dc, i) == Expressed(dc, i, Expression_of(dc, dc.blocks[i + 1].next))

\* BranchBlock.express of block i
BranchBlock_express(dc, i) ==
    LET block == dc.blocks[i + 1]
        if_false == block.instruction.opname \in
                        {"POP_JUMP_IF_FALSE", "JUMP_IF_FALSE_OR_POP"}
        next == Expression_of(dc, block.next)
        next_jumped == Expression_of(dc, block.next_jumped)
    IN IF Len(block.stack) < 1 THEN Failed(dc, "IndexError")
       ELSE IF next.st # "ok" THEN Expressed(dc, i, next)
       ELSE IF next_jumped.st # "ok" THEN Expressed(dc, i, next_jumped)
       ELSE Expressed(dc, i,
                New("Conditional",
                    IF if_false
                    THEN <<block.stack[Len(block.stack)], next.val, next_jumped.val>>
                    ELSE <<block.stack[Len(block.stack)], next_jumped.val, next.val>>,
                    dc.m))

RECURSIVE express_blocks_loop(_, _)

\* self.decompiler.express_blocks()
LoopBody_express(dc, i) ==
    LET decompiler == [dc.blocks[i + 1].decompiler EXCEPT !.m = dc.m] IN
    Nested(dc, i, express_blocks_loop(decompiler, Len(decompiler.ordering)))

\* the expression WhileLoopBlock.express builds
WhileLoopShape(on_loop, on_after) ==
    SApp(SLam("on_after",
              SApp(S("Fixed", <<>>),
                   SLam("on_loop", SLam("_", Existing(on_loop))))),
         SLam("_", Existing(on_after)))

\* the expression ForLoopBlock.express builds
ForLoopShape(identifier, on_loop, on_after, iterator) ==
    SApp(SLam("on_after",
              SApp(SLam("current_iterator",
                        SApp(S("Fixed", <<>>),
                             SLam("on_loop",
                                  SLam("_",
                                       S("ListDestr",
                                         <<SId("current_iterator"),
                                           SApp(SId("on_after"), SNull),
                                           SLam(identifier,
                                                SLam("current_iterator",
                                                     Existing(on_loop)))>>))))),
                   Existing(iterator))),
         SLam("_", Existing(on_after)))

\* on_loop = self.decompiler.first_block.expression;
\* on_after = self.next.expression; self.expression = the loop built of them
LoopExpressed(dc, i, on_loop, on_after) ==
    LET block == dc.blocks[i + 1] IN
    IF on_loop.st # "ok" THEN Expressed(dc, i, on_loop)
    ELSE IF on_after.st # "ok" THEN Expressed(dc, i, on_after)
    ELSE Expressed(dc, i,
             Alloc(IF block.type = "WhileLoopBlock"
                   THEN WhileLoopShape(on_loop.val, on_after.val)
                   ELSE ForLoopShape(cv(block.instruction), on_loop.val,
                                     on_after.val, block.iterator),
                   dc.m))

\* WhileLoopBlock.express and ForLoopBlock.express of block i
LoopBlock_express(dc, i) ==
    Then(LoopBody_express(dc, i),
         LAMBDA d : LoopExpressed(d, i,
                                  Expression_of(d.blocks[i + 1].decompiler, 0),
                                  Expression_of(d, d.blocks[i + 1].next)))

\* ComprehensionLoopBlock.express of block i
ComprehensionLoopBlock_express(dc, i) ==
    Expressed(dc, i, IF dc.blocks[i + 1].next = NoBlock THEN New("Null", <<>>, dc.m)
                     ELSE Expression_of(dc, dc.blocks[i + 1].next))

\* block.express() of block index, dispatched on its class
express(dc, index) ==
    LET type == dc.blocks[index + 1].type IN
    CASE type = "LinearBlock" -> LinearBlock_express(dc, index)
      [] type \in {"JumpBlock", "ForIterBlock"} -> JumpBlock_express(dc, index)
      [] type = "BranchBlock" -> BranchBlock_express(dc, index)
      [] type \in {"WhileLoopBlock", "ForLoopBlock"} -> LoopBlock_express(dc, index)
      [] type = "ComprehensionLoopBlock" -> ComprehensionLoopBlock_express(dc, index)
      [] type = "PlaceholderBlock" -> dc

\* Decompiler.express_blocks, from the k-th index of the ordering down
express_blocks_loop(dc, k) ==
    IF k < 1 \/ dc.st # "ok" THEN dc
    ELSE express_blocks_loop(express(dc, dc.ordering[k]), k - 1)

express_blocks(dc) == express_blocks_loop(dc, Len(dc.ordering))

COMPREHENSION_NAMES == {"<listcomp>", "<setcomp>", "<dictcomp>", "<genexpr>"}

\* decompiler = Decompiler(); decompiler.comprehension_mode = code.co_name in [..]
DecompilerOf(code, m) ==
    [Decompiler(m) EXCEPT !.comprehension_mode = code.co_name \in COMPREHENSION_NAMES]

\* the Decompiler of decompile(code) once its five passes have run
Decompiled(code, m) ==
    Then(Then(Then(Then(build_graph(DecompilerOf(code, m), code.instructions, FALSE),
                        sort_blocks),
                   detach_unreachable),
              LAMBDA dc : execute_blocks(dc, <<>>)),
         express_blocks)

\* the loop `for name in reversed(names): inner = Lambda(Identifier(name), inner)`
RECURSIVE WrapLambdas(_, _, _, _)
WrapLambdas(names, k, inner, m) ==
    IF k < 1 THEN Ok(inner, m)
    ELSE Then(Then(New("Identifier", <<PyStr(names[k])>>, m),
                   LAMBDA name : New("Lambda", <<name.val, inner>>, name.m)),
              LAMBDA lambda : WrapLambdas(names, k - 1, lambda.val, lambda.m))

\* decompiler.first_block.expression under a Lambda for each of the names
Wrapped(dc, names) ==
    IF dc.st # "ok" THEN Raise(dc.st, dc.m)
    ELSE WrapLambdas(names, Len(names), dc.blocks[1].expression, dc.m)

\* decompile wrapping the Lambdas in the order of the names, last outermost
decompile_unreversed(code, m) ==
    Wrapped(Decompiled(code, m),
            Reversed(SubSeq(code.co_varnames, 1, code.co_argcount)))

\* decompile(code)
decompile(code, m) ==
    Wrapped(Decompiled(code, m), SubSeq(code.co_varnames, 1, code.co_argcount))

(***************************************************************************)
(* The inputs the client draws its calls from.                             *)
(***************************************************************************)
SNative(v) == S("Native", <<v>>)
SPlus(l, r) == S("Plus", <<l, r>>)
SLess(l, r) == S("LowerThan", <<l, r>>)
SCond(c, t, f) == S("Conditional", <<c, t, f>>)
SListNil == S("ListNil", <<>>)
SListCons(h, t) == S("ListCons", <<h, t>>)
STupleNil == S("TupleNil", <<>>)
STupleCons(key, v, t) == S("TupleCons", <<key, v, t>>)
STupleDestr(input, key) == S("TupleDestr", <<input, key>>)
SDatabase == S("Database", <<PyStr("pg"), PyStr("db"), PyStr("host"), PyInt(1),
                             PyStr("user"), PyStr("pw")>>)
STable == S("Table", <<SDatabase, PyStr("users")>>)

Servers == {"down", "null", "zero"}

\* expressions passed to Expression.evaluate
EvaluateInputs ==
    { SNum(1), SPlus(SNum(1), SNum(2)), SNative(PyFunc("f")), SNative(PyInt(3)),
      SApp(SNative(PyFunc("f")), SNum(1)),
      SApp(SLam("x", SId("x")), SNative(PyInt(3))),
      SPlus(SNative(PyInt(3)), SNum(1)),
      SListCons(SNative(PyInt(3)), SListNil),
      SListCons(SNum(1), SListNil),
      SListCons(SNative(PyInt(3)), SListCons(SNative(PyInt(2)), SListNil)),
      SCond(SNative(PyInt(3)), SNum(1), SNum(2)),
      SCond(SBool(TRUE), SNative(PyInt(3)), SNum(2)),
      S("Scan", <<SNative(PyInt(3))>>), S("Scan", <<STable>>), STable, SDatabase,
      S("ListDestr", <<SListCons(SNative(PyInt(3)), SListNil), SNull,
                       SLam("h", SLam("t", SId("h")))>>),
      S("ListDestr", <<SListNil, SNative(PyInt(3)), SNull>>),
      STupleDestr(STupleCons(SStr("a"), SNative(PyInt(3)), STupleNil), SStr("a")),
      S("Not", <<SNative(PyInt(3))>>) }

Ints == 0..MaxInt

\* bodies b and arguments a of an Application(Lambda(x, b), a)
BetaBodies ==
    { SId("x"), SId("y"), SPlus(SId("x"), SNum(2)), SLam("y", SId("x")),
      SLam("y", SPlus(SId("x"), SId("y"))), SLam("x", SId("x")),
      SApp(SLam("x", SId("x")), SNum(2)),
      SApp(SLam("y", SPlus(SId("x"), SId("y"))), SNum(2)),
      SCond(SLess(SId("x"), SNum(2)), SStr("lo"), SStr("hi")),
      STupleCons(SStr("k"), SId("x"), STupleNil) }

BetaArguments == { SNum(i) : i \in Ints } \cup { SPlus(SNum(1), SNum(2)), SStr("a") }

Conditions ==
    { SBool(TRUE), SBool(FALSE), SNum(1), SNull, SStr(""), SId("free"),
      S("Not", <<SBool(TRUE)>>), SLess(SId("v"), SNum(2)),
      SPlus(SStr("a"), SNum(1)), S("Equal", <<SId("v"), SNum(1)>>) }

Branches ==
    { <<SNum(1), SNum(2)>>, <<SNum(1), SNum(1)>>,
      <<SPlus(SStr("a"), SNum(1)), SNum(2)>>, <<SNum(1), SPlus(SStr("a"), SNum(1))>>,
      <<SCond(SBool(FALSE), SNum(1), SNum(2)), SId("v")>> }

Keys == {"a", "b"}

\* association lists with String keys, and other inputs of TupleDestr
Tuples ==
    { STupleNil }
    \cup { STupleCons(SStr(k1), SNum(1), STupleNil) : k1 \in Keys }
    \cup { STupleCons(SStr(k1), SNum(1), STupleCons(SStr(k2), SNum(2), STupleNil)) :
             k1 \in Keys, k2 \in Keys }
    \cup { STupleCons(SId("k"), SNum(1), STupleCons(SStr("a"), SNum(2), STupleNil)),
           STupleCons(SStr("a"), SNum(1), STupleCons(SId("k"), SNum(2), STupleNil)),
           STupleCons(SNum(0), SNum(1), STupleCons(SStr("a"), SNum(2), STupleNil)) }

DestrKeys == { SStr(k1) : k1 \in Keys } \cup { SId("k"), SNum(0) }

\* the environments of the calls: shapes of the bound values
Environments ==
    { EmptyEnv, [x \in {"v"} |-> SNum(1)], [x \in {"v"} |-> SNum(3)],
      [x \in {"k"} |-> SStr("a")], [x \in {"x", "y"} |-> SNum(3)] }

\* expressions passed to evaluate_locally
\* Application(Fixed(), Lambda(on_loop, Lambda(_, body))), the recursion
\* WhileLoopBlock.express and ForLoopBlock.express build
SLoop(body) == SApp(S("Fixed", <<>>), SLam("on_loop", SLam("_", body)))

\* bodies of a loop that never call on_loop
LoopExits == { SNum(1), SApp(SId("on_after"), SNull), SId("x") }

LocalInputs ==
    { SApp(SLam("x", b), a) : b \in BetaBodies, a \in BetaArguments }
    \cup { SApp(SApp(SLam("x", SLam("y", SPlus(SId("x"), SId("y")))), SNum(1)), SNum(2)) }
    \cup { SCond(c, br[1], br[2]) : c \in Conditions, br \in Branches }
    \cup { STupleDestr(t, key) : t \in Tuples, key \in DestrKeys }
    \cup { S("Scan", <<STable>>), S("Filter", <<SLam("x", SBool(TRUE)), SListNil>>),
           S("Project", <<SLam("x", SId("x")), S("Scan", <<STable>>)>>),
           S("Sort", <<SListNil, SBool(TRUE), SListNil>>),
           S("Limit", <<SNum(1), SListCons(SNum(1), SListNil)>>),
           S("Group", <<SListNil, SListNil>>),
           S("Join", <<SLam("x", SLam("y", SBool(TRUE))), SListNil, SListNil>>),
           SDatabase, STable,
           \* an application and, next to it, a use of the name it binds
           SPlus(SApp(SLam("x", SId("x")), SNum(1)), SId("x")) }
    \cup { S("Minus", <<SNum(x), SNum(y)>>) : x \in Ints, y \in Ints }
    \cup { SLoop(body) : body \in LoopExits }
    \cup { \* the expression WhileLoopBlock.express builds around a loop
           SApp(SLam("on_after", SLoop(SApp(SId("on_after"), SNull))),
                SLam("_", SNum(1))) }
    \cup { S("Minus", <<SPlus(SNum(1), SNum(2)), SApp(SLam("x", SId("x")), SNum(y))>>) :
             y \in Ints }

\* the environment whose values are the objects built from the shapes of env
RECURSIVE AllocEnv(_, _, _)
AllocEnv(env, done, m) ==
    IF DOMAIN done = DOMAIN env THEN Ok(done, m)
    ELSE LET name == CHOOSE x \in DOMAIN env \ DOMAIN done : TRUE
             v == Alloc(env[name], m)
         IN AllocEnv(env, Bind(done, name, v.val), v.m)

\* host values passed to encode
Scalars == { PyNone, PyBool(TRUE), PyBool(FALSE), PyInt(0), PyInt(1), PyInt(2),
             PyFloat(1, 2), PyStr("a"), PyStr("") }

EncodeInputs ==
    Scalars
    \cup { PyList(<<>>), PyTuple(<<>>), PyDict(<<>>), PyFunc("f") }
    \cup { PyTuple(<<PyInt(1)>>), PyTuple(<<PyInt(1), PyInt(2)>>) }
    \cup { PyList(<<a>>) : a \in Scalars }
    \cup { PyList(<<PyInt(1), PyInt(2)>>), PyList(<<PyInt(1), PyInt(2), PyInt(3)>>),
           PyList(<<PyStr("a"), PyBool(TRUE)>>),
           PyList(<<PyList(<<PyInt(1), PyInt(2)>>), PyList(<<>>)>>),
           PyList(<<PyDict(<<<<PyStr("a"), PyInt(1)>>>>)>>) }
    \cup { PyDict(<<<<PyStr("a"), a>>>>) : a \in Scalars }
    \cup { PyDict(<<<<PyStr("a"), PyInt(1)>>, <<PyStr("b"), PyInt(2)>>>>),
           PyDict(<<<<PyStr("b"), PyInt(2)>>, <<PyStr("a"), PyInt(1)>>>>),
           PyDict(<<<<PyStr("a"), PyDict(<<<<PyStr("b"), PyInt(2)>>>>)>>>>),
           PyDict(<<<<PyStr("a"), PyList(<<>>)>>>>),
           PyDict(<<<<PyStr("a"), PyList(<<PyInt(1)>>)>>>>),
           PyDict(<<<<PyInt(1), PyInt(2)>>>>) }

\* constructor calls cls(*args)
ArgValues == { PyInt(1), PyBool(TRUE), PyFloat(1, 2), PyStr("x"), PyNone, NullClass,
               Node("Null", <<>>, 1), Node("Identifier", <<PyStr("x")>>, 2),
               Node("Number", <<PyInt(1)>>, 3) }

ConstructClasses ==
    { "Null", "Number", "Double", "String", "Boolean", "Identifier", "Lambda",
      "ListNil", "ListCons", "Application", "Native", "Plus", "Fixed", "Value",
      "Expression", "TupleCons" }

ConstructInputs ==
    { <<c, <<>>>> : c \in ConstructClasses }
    \cup { <<c, <<a>>>> : c \in ConstructClasses, a \in ArgValues }
    \cup { <<c, <<a, b>>>> : c \in {"Lambda", "ListCons", "Application", "Plus", "Number"},
                            a \in ArgValues, b \in ArgValues }
    \cup { <<"TupleCons", <<a, b, c>>>> :
             a \in {Node("Null", <<>>, 1), PyInt(1)}, b \in {Node("Null", <<>>, 1)},
             c \in {Node("Null", <<>>, 1), NullClass} }

\* the instructions dis.get_instructions lists for a code object whose
\* instructions are ops, <<opname, argval, is_jump_target>> each, two bytes apart
Program(ops) ==
    [i \in 1..Len(ops) |-> Instruction(2 * (i - 1), ops[i][1], ops[i][2], ops[i][3])]

LOAD_FAST(name) == <<"LOAD_FAST", PyStr(name), FALSE>>
LOAD_CONST(value) == <<"LOAD_CONST", value, FALSE>>
STORE_FAST(name) == <<"STORE_FAST", PyStr(name), FALSE>>
Op(opname) == <<opname, PyNone, FALSE>>
OpArg(opname, arg) == <<opname, PyInt(arg), FALSE>>
COMPARE_OP(op) == <<"COMPARE_OP", PyStr(op), FALSE>>
Target(op) == <<op[1], op[2], TRUE>>
RETURN_VALUE == Op("RETURN_VALUE")

\* def f(x): return x <op> 2, and def f(x, y): return x <op> y
Binary1(opname) ==
    Code("f", <<"x">>, 1,
         Program(<<LOAD_FAST("x"), LOAD_CONST(PyInt(2)), Op(opname), RETURN_VALUE>>))
Binary2(opname) ==
    Code("f", <<"x", "y">>, 2,
         Program(<<LOAD_FAST("x"), LOAD_FAST("y"), Op(opname), RETURN_VALUE>>))

\* def f(...): return [e1, .., en]  (or a tuple, or a set)
Literal(co_varnames, loads, build) ==
    Code("f", co_varnames, Len(co_varnames),
         Program(loads \o <<OpArg(build, Len(loads)), RETURN_VALUE>>))

BinaryOpnames == {"BINARY_ADD", "BINARY_SUBTRACT", "BINARY_MULTIPLY",
                  "BINARY_TRUE_DIVIDE", "BINARY_MODULO", "INPLACE_ADD"}

\* the code objects passed to decompile
Codes ==
    { Binary1(o) : o \in BinaryOpnames } \cup { Binary2(o) : o \in BinaryOpnames }
    \cup { Literal(<<"x">>, <<LOAD_FAST("x"), LOAD_CONST(PyInt(1))>>, b) :
             b \in {"BUILD_LIST", "BUILD_TUPLE", "BUILD_SET"} }
    \cup { Literal(<<>>, <<LOAD_CONST(PyInt(1)), LOAD_CONST(PyInt(2)),
                          LOAD_CONST(PyInt(3))>>, "BUILD_LIST"),
           Literal(<<"x", "y">>, <<LOAD_FAST("y"), LOAD_FAST("x")>>, "BUILD_TUPLE"),
           Literal(<<"x">>, <<LOAD_FAST("x")>>, "BUILD_LIST"),
           Literal(<<>>, <<>>, "BUILD_LIST") }
    \cup {
      \* def f(): return 1
      Code("f", <<>>, 0, Program(<<LOAD_CONST(PyInt(1)), RETURN_VALUE>>)),
      \* def f(x): return None
      Code("f", <<"x">>, 1, Program(<<LOAD_CONST(PyNone), RETURN_VALUE>>)),
      \* def f(): return None
      Code("f", <<>>, 0, Program(<<LOAD_CONST(PyNone), RETURN_VALUE>>)),
      \* def f(x): t = x; return t
      Code("f", <<"x", "t">>, 1,
           Program(<<LOAD_FAST("x"), STORE_FAST("t"), LOAD_FAST("t"), RETURN_VALUE>>)),
      \* def f(x): t = x; t = 1; return t
      Code("f", <<"x", "t">>, 1,
           Program(<<LOAD_FAST("x"), STORE_FAST("t"), LOAD_CONST(PyInt(1)),
                     STORE_FAST("t"), LOAD_FAST("t"), RETURN_VALUE>>)),
      \* def f(x, y): z = x * y; return z + x
      Code("f", <<"x", "y", "z">>, 2,
           Program(<<LOAD_FAST("x"), LOAD_FAST("y"), Op("BINARY_MULTIPLY"),
                     STORE_FAST("z"), LOAD_FAST("z"), LOAD_FAST("x"), Op("BINARY_ADD"),
                     RETURN_VALUE>>)),
      \* def f(x, y, z): return y
      Code("f", <<"x", "y", "z">>, 3, Program(<<LOAD_FAST("y"), RETURN_VALUE>>)),
      \* def f(a, b, c, u): u = a; return u
      Code("f", <<"c", "b", "a", "u">>, 3,
           Program(<<LOAD_FAST("a"), STORE_FAST("u"), LOAD_FAST("u"), RETURN_VALUE>>)),
      \* def f(x): return x < 2
      Code("f", <<"x">>, 1,
           Program(<<LOAD_FAST("x"), LOAD_CONST(PyInt(2)), COMPARE_OP("<"),
                     RETURN_VALUE>>)),
      \* def f(x): return x > 2
      Code("f", <<"x">>, 1,
           Program(<<LOAD_FAST("x"), LOAD_CONST(PyInt(2)), COMPARE_OP(">"),
                     RETURN_VALUE>>)),
      \* def f(x): return -x
      Code("f", <<"x">>, 1,
           Program(<<LOAD_FAST("x"), Op("UNARY_NEGATIVE"), RETURN_VALUE>>)),
      \* def f(x): return g(x, 1)
      Code("f", <<"x">>, 1,
           Program(<<<<"LOAD_GLOBAL", PyStr("g"), FALSE>>, LOAD_FAST("x"),
                     LOAD_CONST(PyInt(1)), OpArg("CALL_FUNCTION", 2), RETURN_VALUE>>)),
      \* def f(): return g()
      Code("f", <<>>, 0,
           Program(<<<<"LOAD_GLOBAL", PyStr("g"), FALSE>>, OpArg("CALL_FUNCTION", 0),
                     RETURN_VALUE>>)),
      \* def f(x): return x + g(x)
      Code("f", <<"x">>, 1,
           Program(<<LOAD_FAST("x"), <<"LOAD_GLOBAL", PyStr("g"), FALSE>>,
                     LOAD_FAST("x"), OpArg("CALL_FUNCTION", 1), Op("BINARY_ADD"),
                     RETURN_VALUE>>)),
      \* def f(x, y): return x + g(x, y, 1)
      Code("f", <<"x", "y">>, 2,
           Program(<<LOAD_FAST("x"), <<"LOAD_GLOBAL", PyStr("g"), FALSE>>,
                     LOAD_FAST("x"), LOAD_FAST("y"), LOAD_CONST(PyInt(1)),
                     OpArg("CALL_FUNCTION", 3), Op("BINARY_ADD"), RETURN_VALUE>>)),
      \* def f(x): return (x, [])
      Code("f", <<"x">>, 1,
           Program(<<LOAD_FAST("x"), OpArg("BUILD_LIST", 0), OpArg("BUILD_TUPLE", 2),
                     RETURN_VALUE>>)),
      \* def f(x): return {"a": x}
      Code("f", <<"x">>, 1,
           Program(<<LOAD_CONST(PyStr("a")), LOAD_FAST("x"), OpArg("BUILD_MAP", 1),
                     RETURN_VALUE>>)),
      \* def f(x): return x["a"]
      Code("f", <<"x">>, 1,
           Program(<<LOAD_FAST("x"), LOAD_CONST(PyStr("a")), Op("BINARY_SUBSCR"),
                     RETURN_VALUE>>)),
      \* def f(x): del x["a"]
      Code("f", <<"x">>, 1,
           Program(<<LOAD_FAST("x"), LOAD_CONST(PyStr("a")), Op("DELETE_SUBSCR"),
                     LOAD_CONST(PyNone), RETURN_VALUE>>)),
      \* def f(x): x; y = 1   (no return)
      Code("f", <<"x", "y">>, 1,
           Program(<<LOAD_FAST("x"), Op("POP_TOP"), LOAD_CONST(PyInt(1)),
                     STORE_FAST("y")>>)),
      \* def f(x): return x, followed by the dead return of the compiler
      Code("f", <<"x">>, 1,
           Program(<<LOAD_FAST("x"), RETURN_VALUE, Target(LOAD_CONST(PyNone)),
                     RETURN_VALUE>>)),
      \* return x, followed by unreachable instructions that branch backwards
      Code("f", <<"x">>, 1,
           Program(<<LOAD_FAST("x"), RETURN_VALUE, Target(LOAD_FAST("x")),
                     OpArg("POP_JUMP_IF_FALSE", 4), Target(LOAD_CONST(PyNone)),
                     RETURN_VALUE>>)),
      \* def f(x): return 1 if x < 2 else 2
      Code("f", <<"x">>, 1,
           Program(<<LOAD_FAST("x"), LOAD_CONST(PyInt(2)), COMPARE_OP("<"),
                     OpArg("POP_JUMP_IF_FALSE", 12), LOAD_CONST(PyInt(1)), RETURN_VALUE,
                     Target(LOAD_CONST(PyInt(2))), RETURN_VALUE>>)),
      \* def f(x): if x < 2: z = 1 else: z = x; return z
      Code("f", <<"x", "z">>, 1,
           Program(<<LOAD_FAST("x"), LOAD_CONST(PyInt(2)), COMPARE_OP("<"),
                     OpArg("POP_JUMP_IF_FALSE", 14), LOAD_CONST(PyInt(1)),
                     STORE_FAST("z"), OpArg("JUMP_FORWARD", 18),
                     Target(LOAD_FAST("x")), STORE_FAST("z"), Target(LOAD_FAST("z")),
                     RETURN_VALUE>>)),
      \* def f(x, y): return x or y
      Code("f", <<"x", "y">>, 2,
           Program(<<LOAD_FAST("x"), OpArg("JUMP_IF_TRUE_OR_POP", 6), LOAD_FAST("y"),
                     Target(RETURN_VALUE)>>)),
      \* def f(x): return x, with dead code that jumps to the live return
      Code("f", <<"x">>, 1,
           Program(<<LOAD_FAST("x"), OpArg("JUMP_FORWARD", 8), LOAD_CONST(PyInt(1)),
                     OpArg("JUMP_FORWARD", 8), Target(RETURN_VALUE)>>)),
      \* a live branch whose two sides return, then a dead branch to live code
      Code("f", <<"x">>, 1,
           Program(<<LOAD_FAST("x"), OpArg("POP_JUMP_IF_FALSE", 8), LOAD_CONST(PyInt(1)),
                     RETURN_VALUE, Target(LOAD_CONST(PyInt(2))), RETURN_VALUE,
                     LOAD_FAST("x"), OpArg("POP_JUMP_IF_TRUE", 8),
                     LOAD_CONST(PyInt(3)), RETURN_VALUE>>)),
      \* def f(x): return 1 if x else 1
      Code("f", <<"x">>, 1,
           Program(<<LOAD_FAST("x"), OpArg("POP_JUMP_IF_FALSE", 8), LOAD_CONST(PyInt(1)),
                     OpArg("JUMP_FORWARD", 10), Target(LOAD_CONST(PyInt(1))),
                     Target(RETURN_VALUE)>>)),
      \* def f(x): return x, then an instruction LinearBlock.execute does not know
      Code("f", <<"x">>, 1,
           Program(<<LOAD_FAST("x"), RETURN_VALUE, Op("UNARY_NEGATIVE"), RETURN_VALUE>>)),
      \* the same, the unknown instruction opening an unreachable block
      Code("f", <<"x">>, 1,
           Program(<<LOAD_FAST("x"), RETURN_VALUE, Target(Op("UNARY_NEGATIVE")),
                     RETURN_VALUE>>)),
      \* def f(x): for z in x: w = z
      Code("f", <<"x", "z", "w">>, 1,
           Program(<<OpArg("SETUP_LOOP", 18), LOAD_FAST("x"), Op("GET_ITER"),
                     Target(OpArg("FOR_ITER", 16)), STORE_FAST("z"), LOAD_FAST("z"),
                     STORE_FAST("w"), OpArg("JUMP_ABSOLUTE", 6), Target(Op("POP_BLOCK")),
                     Target(LOAD_CONST(PyNone)), RETURN_VALUE>>)),
      \* def f(x): for z in x: if z: w = 1 else: w = 2
      Code("f", <<"x", "z", "w">>, 1,
           Program(<<OpArg("SETUP_LOOP", 28), LOAD_FAST("x"), Op("GET_ITER"),
                     Target(OpArg("FOR_ITER", 26)), STORE_FAST("z"), LOAD_FAST("z"),
                     OpArg("POP_JUMP_IF_FALSE", 20), LOAD_CONST(PyInt(1)),
                     STORE_FAST("w"), OpArg("JUMP_FORWARD", 24),
                     Target(LOAD_CONST(PyInt(2))), STORE_FAST("w"),
                     Target(OpArg("JUMP_ABSOLUTE", 6)), Target(Op("POP_BLOCK")),
                     Target(LOAD_CONST(PyNone)), RETURN_VALUE>>)),
      \* def f(x): while x: x = x - 1; return x
      Code("f", <<"x">>, 1,
           Program(<<OpArg("SETUP_LOOP", 18), Target(LOAD_FAST("x")),
                     OpArg("POP_JUMP_IF_FALSE", 16), LOAD_FAST("x"), LOAD_CONST(PyInt(1)),
                     Op("BINARY_SUBTRACT"), STORE_FAST("x"), OpArg("JUMP_ABSOLUTE", 2),
                     Target(Op("POP_BLOCK")), Target(LOAD_FAST("x")), RETURN_VALUE>>)),
      \* def f(x, y): while x: if y: break; return x
      Code("f", <<"x", "y">>, 2,
           Program(<<OpArg("SETUP_LOOP", 18), Target(LOAD_FAST("x")),
                     OpArg("POP_JUMP_IF_FALSE", 16), LOAD_FAST("y"),
                     OpArg("POP_JUMP_IF_FALSE", 14), Op("BREAK_LOOP"),
                     OpArg("JUMP_ABSOLUTE", 2), Target(OpArg("JUMP_ABSOLUTE", 2)),
                     Target(Op("POP_BLOCK")), Target(LOAD_FAST("x")), RETURN_VALUE>>)),
      \* def f(x): for z in x: return z
      Code("f", <<"x", "z">>, 1,
           Program(<<OpArg("SETUP_LOOP", 18), LOAD_FAST("x"), Op("GET_ITER"),
                     Target(OpArg("FOR_ITER", 16)), STORE_FAST("z"), LOAD_FAST("z"),
                     RETURN_VALUE, OpArg("JUMP_ABSOLUTE", 6), Target(Op("POP_BLOCK")),
                     Target(LOAD_CONST(PyNone)), RETURN_VALUE>>)),
      \* def f(x): for a in x: for b in a: pass
      Code("f", <<"x", "a", "b">>, 1,
           Program(<<OpArg("SETUP_LOOP", 30), LOAD_FAST("x"), Op("GET_ITER"),
                     Target(OpArg("FOR_ITER", 28)), STORE_FAST("a"),
                     OpArg("SETUP_LOOP", 26), LOAD_FAST("a"), Op("GET_ITER"),
                     Target(OpArg("FOR_ITER", 24)), STORE_FAST("b"),
                     OpArg("JUMP_ABSOLUTE", 16), Target(Op("POP_BLOCK")),
                     Target(OpArg("JUMP_ABSOLUTE", 6)), Target(Op("POP_BLOCK")),
                     Target(LOAD_CONST(PyNone)), RETURN_VALUE>>)),
      \* [z for z in x]
      Code("<listcomp>", <<".0", "z">>, 1,
           Program(<<OpArg("BUILD_LIST", 0), LOAD_FAST(".0"),
                     Target(OpArg("FOR_ITER", 14)), STORE_FAST("z"), LOAD_FAST("z"),
                     OpArg("LIST_APPEND", 2), OpArg("JUMP_ABSOLUTE", 4),
                     Target(RETURN_VALUE)>>)),
      \* [z for z in x if z]
      Code("<listcomp>", <<".0", "z">>, 1,
           Program(<<OpArg("BUILD_LIST", 0), LOAD_FAST(".0"),
                     Target(OpArg("FOR_ITER", 18)), STORE_FAST("z"), LOAD_FAST("z"),
                     OpArg("POP_JUMP_IF_FALSE", 4), LOAD_FAST("z"),
                     OpArg("LIST_APPEND", 2), OpArg("JUMP_ABSOLUTE", 4),
                     Target(RETURN_VALUE)>>)),
      \* a comprehension whose loop appends nothing
      Code("<listcomp>", <<".0", "z">>, 1,
           Program(<<OpArg("BUILD_LIST", 0), LOAD_FAST(".0"),
                     Target(OpArg("FOR_ITER", 10)), STORE_FAST("z"),
                     OpArg("JUMP_ABSOLUTE", 4), Target(RETURN_VALUE)>>)),
      \* a comprehension whose loop has nothing to iterate on
      Code("<genexpr>", <<".0">>, 1,
           Program(<<OpArg("FOR_ITER", 8), OpArg("LIST_APPEND", 1),
                     OpArg("JUMP_ABSOLUTE", 0), LOAD_CONST(PyInt(1)),
                     Target(RETURN_VALUE)>>)),
      \* a jump to an offset that holds no instruction
      Code("f", <<>>, 0,
           Program(<<LOAD_CONST(PyInt(1)), OpArg("JUMP_FORWARD", 40), RETURN_VALUE>>)),
      \* no instruction at all
      Code("f", <<>>, 0, <<>>) }

\* instruction lists that open with the FOR_ITER of a loop, as the ones
\* LoopBlock.execute hands to build_graph(instructions, True)
LoopBodies ==
    { \* for z in <top of the stack>: pass, then return 1
      Code("f", <<"z">>, 0,
           Program(<<OpArg("FOR_ITER", 4), STORE_FAST("z"),
                     Target(LOAD_CONST(PyInt(1))), RETURN_VALUE>>)),
      \* the same, the body leaving z on the stack
      Code("f", <<"z">>, 0,
           Program(<<OpArg("FOR_ITER", 6), STORE_FAST("z"), LOAD_FAST("z"),
                     Target(LOAD_CONST(PyInt(1))), RETURN_VALUE>>)),
      \* both edges of the FOR_ITER lead to the same block
      Code("f", <<>>, 0, Program(<<OpArg("FOR_ITER", 2), Target(RETURN_VALUE)>>)),
      \* the body jumps back to the FOR_ITER
      Code("f", <<"z">>, 0,
           Program(<<OpArg("FOR_ITER", 8), STORE_FAST("z"), LOAD_FAST("z"),
                     OpArg("JUMP_ABSOLUTE", 0), Target(LOAD_CONST(PyNone)),
                     RETURN_VALUE>>)) }

\* the arguments of build_graph(instructions, ignore_loop)
GraphInputs ==
    { <<code, FALSE>> : code \in Codes } \cup { <<code, TRUE>> : code \in LoopBodies }

\* the host arguments a decompiled function of n parameters is applied to
Arguments(n) ==
    IF n = 0 THEN {<<>>}
    ELSE IF n = 1 THEN { <<PyInt(i)>> : i \in Ints } \cup {<<PyStr("a")>>}
    ELSE IF n = 2 THEN { <<PyInt(i), PyInt(j)>> : i \in Ints, j \in Ints }
    ELSE { <<PyInt(1), PyInt(2), PyInt(3)>> }

(***************************************************************************)
(* The client: one library call at a time.                                 *)
(***************************************************************************)
NoCall == [op |-> "none"]
NoRet == [st |-> "none"]

Init ==
    /\ pc = "idle"
    /\ call = NoCall
    /\ ret = NoRet
    /\ log = <<>>

\* the call e.op(environment), e being the expression just built
Called(op, e, environment) ==
    [op |-> op, self |-> e.val, environment |-> environment, m |-> e.m]

CalledIn(op, shape, en) == Called(op, Alloc(shape, en.m), en.val)

\* e.evaluate({}) on a freshly built expression
CallEvaluate ==
    /\ pc = "idle"
    /\ \E shape \in EvaluateInputs, srv \in Servers :
         /\ call' = CalledIn("evaluate", shape, NewDict(EmptyEnv, Machine(1, srv)))
         /\ ret' = evaluate(call'.self, call'.environment, call'.m, 0)
         /\ log' = ret'.m.tr
    /\ pc' = "done"

\* e.evaluate_locally(environment) on a freshly built expression
CallEvaluateLocally ==
    /\ pc = "idle"
    /\ \E shape \in LocalInputs, env \in Environments, srv \in Servers :
         /\ call' = CalledIn("evaluate_locally", shape,
                             Then(AllocEnv(env, EmptyEnv, Machine(1, srv)),
                                  LAMBDA en : NewDict(en.val, en.m)))
         /\ ret' = evaluate_locally(call'.self, call'.environment, call'.m, 0)
         /\ log' = ret'.m.tr
    /\ pc' = "done"

\* encode(value)
CallEncode ==
    /\ pc = "idle"
    /\ \E v \in EncodeInputs :
         /\ call' = [op |-> "encode", value |-> v]
         /\ ret' = encode(v, Machine(1, "down"))
    /\ log' = <<>>
    /\ pc' = "encoded"

\* decode(expression) on what encode returned
CallDecode ==
    /\ pc = "encoded"
    /\ ret.st = "ok"
    /\ ret' = decode(ret.val, ret.m)
    /\ pc' = "done"
    /\ UNCHANGED <<call, log>>

\* the loop applying an expression to encode(a) for each argument a in turn
RECURSIVE ApplyAll(_, _, _, _)
ApplyAll(function, args, i, m) ==
    IF i > Len(args) THEN Ok(function, m)
    ELSE Then(Then(encode(args[i], m),
                   LAMBDA a : New("Application", <<function, a.val>>, a.m)),
              LAMBDA application :
                  ApplyAll(application.val, args, i + 1, application.m))

\* decompile(code)
CallDecompile ==
    /\ pc = "idle"
    /\ \E code \in Codes :
         /\ call' = [op |-> "decompile", code |-> code, m |-> Machine(1, "down")]
         /\ ret' = decompile(code, Machine(1, "down"))
    /\ log' = <<>>
    /\ pc' = "decompiled"

\* Application(.. Application(decompiled, encode(a1)) .., encode(an))
\*     .evaluate_locally({})
CallApply ==
    /\ pc = "decompiled"
    /\ ret.st = "ok"
    /\ \E args \in Arguments(call.code.co_argcount) :
         /\ call' = [op |-> "apply", code |-> call.code, args |-> args,
                     m |-> call.m]
         /\ ret' = Then(ApplyAll(ret.val, args, 1, ret.m),
                        LAMBDA e : Then(NewDict(EmptyEnv, e.m),
                                        LAMBDA en : evaluate_locally(e.val, en.val,
                                                                     en.m, 0)))
         /\ log' = ret'.m.tr
    /\ pc' = "done"

\* the first statements of decompile(code), or the build_graph(instructions,
\* True) of a loop body
CallBuildGraph ==
    /\ pc = "idle"
    /\ \E in \in GraphInputs :
         /\ ret' = build_graph(DecompilerOf(in[1], Machine(1, "down")),
                                in[1].instructions, in[2])
         /\ call' = [op |-> "build_graph", code |-> in[1], ignore_loop |-> in[2],
                     graph |-> ret']
    /\ log' = <<>>
    /\ pc' = "built"

\* decompiler.sort_blocks() on the graph just built
CallSortBlocks ==
    /\ pc = "built"
    /\ ret.st = "ok"
    /\ ret' = sort_blocks(ret)
    /\ call' = [call EXCEPT !.op = "sort_blocks"]
    /\ pc' = "sorted"
    /\ UNCHANGED log

\* decompiler.detach_unreachable() after sort_blocks
CallDetachUnreachable ==
    /\ pc = "sorted"
    /\ ret.st = "ok"
    /\ ret' = detach_unreachable(ret)
    /\ call' = [call EXCEPT !.op = "detach_unreachable"]
    /\ pc' = "detached"
    /\ UNCHANGED log

\* decompiler.execute_blocks() after detach_unreachable
CallExecuteBlocks ==
    /\ pc = "detached"
    /\ ret.st = "ok"
    /\ ret' = execute_blocks(ret, <<>>)
    /\ call' = [call EXCEPT !.op = "execute_blocks"]
    /\ pc' = "executed"
    /\ UNCHANGED log

\* decompiler.express_blocks() after execute_blocks
CallExpressBlocks ==
    /\ pc = "executed"
    /\ ret.st = "ok"
    /\ ret' = express_blocks(ret)
    /\ call' = [call EXCEPT !.op = "express_blocks"]
    /\ pc' = "expressed"
    /\ UNCHANGED log

\* cls(*args)
CallConstruct ==
    /\ pc = "idle"
    /\ \E in \in ConstructInputs :
         /\ call' = [op |-> "construct", cls |-> in[1], args |-> in[2]]
         /\ ret' = New(in[1], in[2], Machine(10, "down"))
    /\ log' = <<>>
    /\ pc' = "done"

\* the call is over: its result or its exception is with the client
Return ==
    /\ pc \in {"done", "encoded", "decompiled", "built", "sorted", "detached",
              "executed", "expressed"}
    /\ pc' = "idle"
    /\ call' = NoCall
    /\ ret' = NoRet
    /\ log' = <<>>

Next ==
    \/ CallEvaluate
    \/ CallEvaluateLocally
    \/ CallEncode
    \/ CallDecode
    \/ CallConstruct
    \/ CallDecompile
    \/ CallApply
    \/ CallBuildGraph
    \/ CallSortBlocks
    \/ CallDetachUnreachable
    \/ CallExecuteBlocks
    \/ CallExpressBlocks
    \/ Return

Spec == Init /\ [][Next]_vars

(***************************************************************************)
(* Properties.                                                             *)
(***************************************************************************)
Count(tr, ev) == Cardinality({j \in DOMAIN tr : tr[j] = ev})

\* what the remote attempt of the evaluate call under way does
RemoteAttempt ==
    evaluate_remotely(call.self, call.environment, Enter("evaluate", call.self, call.m))

\* C1: evaluate attempts evaluate_remotely first; evaluate_locally of the same
\* expression runs only after that attempt raised NotRemotelyEvaluableError, and
\* when the remote attempt returns, its result is the result of evaluate and
\* evaluate_locally of the expression is never called.
RemoteFirst ==
    call.op = "evaluate" =>
        LET self == call.self
            local == <<"local", self.oid>>
        IN /\ Len(log) >= 2
           /\ log[1] = <<"evaluate", self.oid>>
           /\ log[2] = <<"remote", self.oid>>
           /\ \A j \in DOMAIN log :
                log[j][1] = "evaluate" =>
                    j < Len(log) /\ log[j + 1] = <<"remote", log[j][2]>>
           /\ \A j \in DOMAIN log :
                log[j] = local =>
                    j = 3 /\ RemoteAttempt.st = "NotRemotelyEvaluableError"
           /\ RemoteAttempt.st = "ok" => ret = RemoteAttempt /\ Count(log, local) = 0

\* C1 happens: the remote attempt declined and the local one produced the result
RemoteFirstWitness ==
    /\ call.op = "evaluate"
    /\ ret.st = "ok"
    /\ Len(log) >= 3
    /\ log[2] = <<"remote", call.self.oid>>
    /\ log[3] = <<"local", call.self.oid>>

\* C2: evaluate recovers from NotRemotelyEvaluableError only: any other failure
\* of the remote attempt is the failure of evaluate, with no local attempt, and
\* whatever the local attempt raises or returns is the outcome of evaluate,
\* with no second remote attempt on the expression.
OnlyNotRemotelyEvaluableRecovered ==
    call.op = "evaluate" =>
        LET self == call.self
            rem == RemoteAttempt
        IN /\ rem.st \notin {"ok", "NotRemotelyEvaluableError"} =>
                /\ ret.st = rem.st
                /\ log = rem.m.tr
                /\ Count(log, <<"local", self.oid>>) = 0
           /\ rem.st = "NotRemotelyEvaluableError" =>
                /\ ret = evaluate_locally(self, call.environment, rem.m, 1)
                /\ Count(log, <<"remote", self.oid>>) = 1
                /\ Count(log, <<"evaluate", self.oid>>) = 1

\* C2 happens: the local attempt fails after the remote one declined
OnlyNotRemotelyEvaluableRecoveredWitness ==
    /\ call.op = "evaluate"
    /\ RemoteAttempt.st = "NotRemotelyEvaluableError"
    /\ ret.st = "NotLocallyEvaluableError"

\* Python's == between two host values
RECURSIVE HostEq(_, _)
HostEq(a, b) ==
    IF IsNum(a) /\ IsNum(b) THEN NumOf(a) * DenOf(b) = NumOf(b) * DenOf(a)
    ELSE IF a.k # b.k THEN FALSE
    ELSE IF a.k \in {"list", "tuple"}
    THEN /\ Len(a.elems) = Len(b.elems)
         /\ \A i \in 1..Len(a.elems) : HostEq(a.elems[i], b.elems[i])
    ELSE IF a.k = "dict"
    THEN /\ Len(a.items) = Len(b.items)
         /\ \A i \in 1..Len(a.items) : \E j \in 1..Len(b.items) :
                /\ HostEq(a.items[i][1], b.items[j][1])
                /\ HostEq(a.items[i][2], b.items[j][2])
    ELSE a = b

\* C3: decode(encode(v)) == v for every v that encode accepts, null and
\* sequences included.
RoundTrip ==
    (call.op = "encode" /\ pc = "done") =>
        ret.st = "ok" /\ HostEq(ret.val, call.value)

\* C5: a constructor called with the wrong number of arguments, or with an
\* argument that is not of the declared shape of its field, raises the shape
\* error (the TypeError of Expression.__init__) and builds no node.
ShapeErrorAtConstruction ==
    ( /\ call.op = "construct"
      /\ call.cls \notin AbstractClasses
      /\ \/ Len(call.args) # Len(fields(call.cls))
         \/ BadField(call.cls, call.args) # {} ) =>
        ret.st = "TypeError" /\ ret.val = Nothing

\* b[x := v] on trees without identities: the free occurrences of x replaced
RECURSIVE Subst(_, _, _)
Subst(e, x, v) ==
    IF e.k # "expr" THEN e
    ELSE IF e.cls = "Identifier" THEN (IF e.args[1].s = x THEN v ELSE e)
    ELSE IF e.cls = "Lambda" /\ e.args[1].args[1].s = x THEN e
    ELSE [e EXCEPT !.args = [i \in 1..Len(e.args) |-> Subst(e.args[i], x, v)]]

\* C6: E(Application(Lambda(x, b), a)) = E(b[x := E(a)]), the body b being
\* a Lambda itself included.
BetaLaw ==
    ( /\ call.op = "evaluate_locally"
      /\ call.self.cls = "Application"
      /\ IsA(Attr(call.self, "function"), "Lambda") ) =>
        LET function == Attr(call.self, "function")
            x == Attr(Attr(function, "parameter"), "name").s
            a == evaluate_locally(Attr(call.self, "argument"), call.environment,
                                  call.m, 0)
        IN (a.st = "ok" /\ IsNode(a.val)) =>
             LET b == Alloc(Subst(Strip(Attr(function, "body")), x, Strip(a.val)), a.m)
                 rhs == evaluate_locally(b.val, call.environment, b.m, 0)
             IN /\ ret.st = rhs.st
                /\ ret.st = "ok" => Strip(ret.val) = Strip(rhs.val)

\* the events ev of the trace tr
Events(tr, kind, e) == Count(tr, <<kind, e.oid>>)

\* C8: Conditional(c, t, f) evaluates c first, then exactly one of t and f: t
\* when c is Boolean(true), f when it is Boolean(false), and the result of
\* that branch is the result; when c evaluates to anything else the call
\* raises TypeError and neither branch is evaluated.
OneBranch ==
    (call.op = "evaluate_locally" /\ call.self.cls = "Conditional") =>
        LET self == call.self
            t == Attr(self, "on_true")
            f == Attr(self, "on_false")
            c == evaluate_locally(Attr(self, "condition"), call.environment,
                                  Enter("local", self, call.m), 1)
        IN /\ Len(log) >= 2
           /\ log[1] = <<"local", self.oid>>
           /\ log[2] = <<"local", Attr(self, "condition").oid>>
           /\ c.st # "ok" => ret = c
           /\ (c.st = "ok" /\ IsA(c.val, "Boolean") /\ Attr(c.val, "value").b) =>
                /\ Events(log, "local", t) = 1 /\ Events(log, "local", f) = 0
                /\ ret = evaluate_locally(t, call.environment, c.m, 1)
           /\ (c.st = "ok" /\ IsA(c.val, "Boolean") /\ ~Attr(c.val, "value").b) =>
                /\ Events(log, "local", f) = 1 /\ Events(log, "local", t) = 0
                /\ ret = evaluate_locally(f, call.environment, c.m, 1)
           /\ (c.st = "ok" /\ ~IsA(c.val, "Boolean")) =>
                /\ ret.st = "TypeError"
                /\ Events(log, "local", t) = 0 /\ Events(log, "local", f) = 0

\* C8 happens: the condition is Boolean(false) and the else branch is the result
OneBranchWitness ==
    /\ call.op = "evaluate_locally"
    /\ call.self.cls = "Conditional"
    /\ Events(log, "local", Attr(call.self, "on_false")) = 1
    /\ Events(log, "local", Attr(call.self, "on_true")) = 0
    /\ ret.st = "ok"

\* the value of the first entry of the association list whose key is the
\* String s, Nothing when there is none
RECURSIVE FirstMatch(_, _)
FirstMatch(input, s) ==
    IF ~IsA(input, "TupleCons") THEN Nothing
    ELSE IF IsA(Attr(input, "key"), "String") /\ Attr(Attr(input, "key"), "value").s = s
    THEN Attr(input, "value")
    ELSE FirstMatch(Attr(input, "tail"), s)

\* C9: TupleDestr(input, key) with a String key returns the value of the first
\* TupleCons entry of input whose key is that String: keys are compared as QIR
\* trees, whichever objects they are.
FirstMatchingKey ==
    (call.op = "evaluate_locally" /\ call.self.cls = "TupleDestr") =>
        LET input == evaluate_locally(Attr(call.self, "input"), call.environment,
                                      call.m, 0)
            key == evaluate_locally(Attr(call.self, "key"), call.environment,
                                    call.m, 0)
        IN ( /\ input.st = "ok" /\ key.st = "ok" /\ IsA(key.val, "String")
             /\ FirstMatch(input.val, Attr(key.val, "value").s) # Nothing ) =>
               /\ ret.st = "ok"
               /\ Strip(ret.val) = Strip(FirstMatch(input.val, Attr(key.val, "value").s))

\* the names of the first n Lambdas of a chain, outermost first
RECURSIVE Parameters(_, _)
Parameters(e, n) ==
    IF n = 0 \/ ~IsA(e, "Lambda") THEN <<>>
    ELSE <<Attr(Attr(e, "parameter"), "name").s>> \o Parameters(Attr(e, "body"), n - 1)

\* what is below the first n Lambdas of a chain
RECURSIVE Body(_, _)
Body(e, n) ==
    IF n = 0 THEN e
    ELSE IF IsA(e, "Lambda") THEN Body(Attr(e, "body"), n - 1)
    ELSE Nothing

\* the tree a load instruction pushes
Pushed(instruction) ==
    IF instruction.opname = "LOAD_FAST" THEN SId(instruction.argval.s)
    ELSE Strip(encode(instruction.argval, Machine(1, "down")).val)

\* the code object does nothing but load n values, build a list of them and
\* return it
IsLiteral(code) ==
    LET n == Len(code.instructions) - 2 IN
    /\ n >= 0
    /\ code.instructions[n + 1].opname \in {"BUILD_LIST", "BUILD_TUPLE", "BUILD_SET"}
    /\ code.instructions[n + 1].argval = PyInt(n)
    /\ \A i \in 1..n : code.instructions[i].opname \in {"LOAD_FAST", "LOAD_CONST"}

\* C4: a list built from the ordered sequence e1..en is
\* ListCons(e1, ListCons(e2, .. ListCons(en, ListNil))): the heads of what
\* encode returns for a list or a tuple are the encoded elements in their
\* order, and the heads of what BUILD_LIST/BUILD_TUPLE/BUILD_SET n builds are
\* the n values in the order they were pushed.
HeadFirst ==
    /\ ( /\ call.op = "encode" /\ pc = "encoded"
         /\ call.value.k \in {"list", "tuple"}
         /\ ret.st = "ok" ) =>
           LET heads == ConsHeads(ret.val)
               elems == call.value.elems
           IN /\ Len(heads) = Len(elems)
              /\ \A i \in 1..Len(elems) :
                   Strip(heads[i]) = Strip(encode(elems[i], Machine(1, "down")).val)
    /\ (pc = "decompiled" /\ ret.st = "ok" /\ IsLiteral(call.code)) =>
           LET heads == ConsHeads(Body(ret.val, call.code.co_argcount))
               n == Len(call.code.instructions) - 2
           IN /\ Len(heads) = n
              /\ \A i \in 1..n : Strip(heads[i]) = Pushed(call.code.instructions[i])

\* x <op> y of Python on two host values; the operate of every operator class
\* but Minus is that operation
PyBinary(opname, x, y) ==
    IF opname \in {"BINARY_SUBTRACT", "INPLACE_SUBTRACT"}
    THEN IF IsNum(x) /\ IsNum(y)
         THEN NumResult(x, y, NumOf(x) * DenOf(y) - NumOf(y) * DenOf(x),
                        DenOf(x) * DenOf(y))
         ELSE Fail("TypeError")
    ELSE IF opname \in DOMAIN BINARY_OPERATIONS
    THEN operate(BINARY_OPERATIONS[opname], x, y)
    ELSE operate(INPLACE_OPERATIONS[opname], x, y)

\* the run of the rest of a straight-line code object after the step r
RECURSIVE PyRun(_, _, _, _)
PyStep(instructions, i, frame, stack, r) ==
    IF r.st # "ok" THEN r
    ELSE PyRun(instructions, i + 1, frame, Append(stack, r.val))

\* what the Python interpreter returns for the instructions from i on, with
\* the local variables frame and the value stack stack
PyRun(instructions, i, frame, stack) ==
    IF i > Len(instructions) THEN Fail("Unmodelled")
    ELSE LET name == instructions[i].opname
             argval == instructions[i].argval
             n == Len(stack)
         IN CASE name = "LOAD_FAST" ->
                   IF argval.s \in DOMAIN frame
                   THEN PyRun(instructions, i + 1, frame, Append(stack, frame[argval.s]))
                   ELSE Fail("UnboundLocalError")
              [] name = "LOAD_CONST" ->
                   PyRun(instructions, i + 1, frame, Append(stack, argval))
              [] name = "STORE_FAST" ->
                   PyRun(instructions, i + 1, Bind(frame, argval.s, stack[n]),
                         SubSeq(stack, 1, n - 1))
              [] name \in DOMAIN BINARY_OPERATIONS \cup DOMAIN INPLACE_OPERATIONS ->
                   PyStep(instructions, i, frame, SubSeq(stack, 1, n - 2),
                          PyBinary(name, stack[n - 1], stack[n]))
              [] name = "COMPARE_OP" /\ argval.s \in {"<", ">"} ->
                   PyStep(instructions, i, frame, SubSeq(stack, 1, n - 2),
                          Compare(stack[n - 1], stack[n], TRUE, argval.s = ">"))
              [] name = "RETURN_VALUE" -> Done(stack[n])
              [] OTHER -> Fail("Unmodelled")

\* code(a1, .., an)
PyCall(code, args) ==
    PyRun(code.instructions, 1,
          [x \in {code.co_varnames[k] : k \in 1..Len(args)} |->
              args[CHOOSE k \in 1..Len(args) : code.co_varnames[k] = x]],
          <<>>)

\* C7: decompile(code) applied to encode(a1), .., encode(an) one after the
\* other and evaluated locally in the empty environment yields a value equal
\* to encode(code(a1, .., an)), whenever code(a1, .., an) returns.
DecompiledAgrees ==
    (call.op = "apply" /\ pc = "done") =>
        LET expected == PyCall(call.code, call.args) IN
        expected.st = "ok" =>
            /\ ret.st = "ok"
            /\ Strip(ret.val) = Strip(encode(expected.val, Machine(1, "down")).val)

\* C10: decompile(code) returns code.co_argcount nested Lambdas around the
\* expression of the first block; their parameters are the first co_argcount
\* names of co_varnames in that order, the first one outermost, and no name
\* of a local variable is among them.
LambdaChain ==
    (pc = "decompiled" /\ ret.st = "ok") =>
        LET code == call.code
            n == code.co_argcount
            names == Parameters(ret.val, n)
        IN /\ names = SubSeq(code.co_varnames, 1, n)
           /\ Body(ret.val, n) = Decompiled(code, call.m).blocks[1].expression
           /\ \A k \in (n + 1)..Len(code.co_varnames) :
                \A j \in 1..Len(names) : names[j] # code.co_varnames[k]

\* C10 happens: a function of two parameters and one local variable decompiled
LambdaChainWitness ==
    /\ pc = "decompiled"
    /\ ret.st = "ok"
    /\ call.code.co_argcount = 2
    /\ Len(call.code.co_varnames) = 3
    /\ Parameters(ret.val, 3) = SubSeq(call.code.co_varnames, 1, 2)

\* the indices of the blocks
Indices(blocks) == 0..(Len(blocks) - 1)

\* the blocks block i points to through next and next_jumped
Targets(blocks, i) ==
    {j \in Indices(blocks) : blocks[i + 1].next = j \/ blocks[i + 1].next_jumped = j}

\* the blocks reachable from the blocks of seen
RECURSIVE ReachableFrom(_, _)
ReachableFrom(blocks, seen) ==
    LET more == seen \cup UNION {Targets(blocks, i) : i \in seen} IN
    IF more = seen THEN seen ELSE ReachableFrom(blocks, more)

\* the blocks Block.detach has run on: no edge left and next_jumped is None
DetachedBlocks(dc) ==
    {i \in Indices(dc.blocks) :
        /\ dc.blocks[i + 1].next = NoBlock
        /\ dc.blocks[i + 1].next_jumped = NoBlock
        /\ dc.blocks[i + 1].predecessors = <<>>}

InOrder(dc) == {dc.ordering[j] : j \in 1..Len(dc.ordering)}

\* C11: after sort_blocks and detach_unreachable the blocks of the ordering
\* and the detached blocks are disjoint, together they are all the blocks, and
\* the ordering holds exactly the blocks reachable from the first block, each
\* once.
OrderingPartition ==
    (pc = "detached" /\ ret.st = "ok") =>
        /\ InOrder(ret) \cap DetachedBlocks(ret) = {}
        /\ InOrder(ret) \cup DetachedBlocks(ret) = Indices(ret.blocks)
        /\ InOrder(ret) = ReachableFrom(call.graph.blocks, {0})
        /\ Cardinality(InOrder(ret)) = Len(ret.ordering)

\* C11 happens: some blocks are in the ordering and two were detached
OrderingPartitionWitness ==
    /\ pc = "detached"
    /\ ret.st = "ok"
    /\ Cardinality(DetachedBlocks(ret)) = 2
    /\ Len(ret.ordering) >= 3

\* the stacks the incoming edges of block i contribute, in Block.execute
ContributedStacks(dc, i) ==
    LET preds == dc.blocks[i + 1].predecessors IN
    [j \in 1..Len(preds) |-> PredecessorStack(dc.blocks[preds[j][1] + 1], preds[j][2])]

\* the stack as a sequence of QIR trees, whatever objects the nodes are
StackTrees(stack) == [j \in 1..Len(stack) |-> Strip(stack[j])]

\* the blocks of the ordering whose predecessors all ran and that have no
\* stack: those Block.execute refused
Refused(dc) ==
    {i \in InOrder(dc) :
        /\ ~dc.blocks[i + 1].has_stack
        /\ dc.blocks[i + 1].predecessors # <<>>
        /\ \A j \in 1..Len(dc.blocks[i + 1].predecessors) :
               dc.blocks[dc.blocks[i + 1].predecessors[j][1] + 1].has_stack}

\* C12: Block.execute fails with PredecessorStacksError only when two of the
\* stacks contributed by the incoming edges of the block differ as sequences
\* of QIR trees; contributed stacks that are structurally equal but made of
\* distinct node objects are accepted.
StructurallyEqualStacksAccepted ==
    (pc = "executed" /\ ret.st = "PredecessorStacksError") =>
        \A i \in Refused(ret) :
            \E j \in 2..Len(ContributedStacks(ret, i)) :
                StackTrees(ContributedStacks(ret, i)[1])
                    # StackTrees(ContributedStacks(ret, i)[j])

\* the opnames build_graph, Block.add and LinearBlock.execute have a case for
SupportedOpnames ==
    JUMP_OPNAMES \cup BRANCH_OPNAMES
    \cup DOMAIN BINARY_OPERATIONS \cup DOMAIN INPLACE_OPERATIONS
    \cup {"FOR_ITER", "BREAK_LOOP", "NOP", "POP_BLOCK", "LOAD_CLOSURE", "SETUP_LOOP",
          "GET_ITER", "POP_TOP", "ROT_TWO", "ROT_THREE", "DUP_TOP", "DUP_TOP_TWO",
          "COMPARE_OP", "BINARY_SUBSCR", "STORE_SUBSCR", "DELETE_SUBSCR",
          "RETURN_VALUE", "YIELD_VALUE", "LIST_APPEND", "SET_ADD", "MAP_ADD",
          "LOAD_CONST", "LOAD_NAME", "LOAD_GLOBAL", "LOAD_FAST", "LOAD_DEREF",
          "LOAD_ATTR", "STORE_NAME", "STORE_FAST", "STORE_GLOBAL", "DELETE_GLOBAL",
          "DELETE_NAME", "DELETE_FAST", "CALL_FUNCTION", "BUILD_TUPLE", "BUILD_LIST",
          "BUILD_SET", "BUILD_MAP", "BUILD_STRING", "MAKE_FUNCTION", "MAKE_CLOSURE"}

\* the instructions of the code object whose opname has no case
UnknownInstructions(code) ==
    {j \in 1..Len(code.instructions) :
        code.instructions[j].opname \notin SupportedOpnames}

\* C13: decompile of an instruction stream holding an opcode outside the
\* supported set fails with NotImplementedError, wherever the instruction
\* sits: no unknown opcode is silently accepted.
UnknownOpcodeRejected ==
    (pc = "decompiled" /\ UnknownInstructions(call.code) # {}) =>
        ret.st = "NotImplementedError"

\* C14: evaluate_locally of a relational operator (Scan, Filter, Project,
\* Sort, Limit, Group, Join), of a Database and of a Table fails with
\* NotLocallyEvaluableError, whatever the arguments and the environment.
OperatorsNotLocallyEvaluable ==
    ( /\ pc = "done"
      /\ call.op = "evaluate_locally"
      /\ call.self.cls \in OperatorClasses \cup {"Database", "Table"} ) =>
        ret.st = "NotLocallyEvaluableError"

Held(dc, i) ==
    {dc.blocks[i + 1].instructions[j] : j \in 1..Len(dc.blocks[i + 1].instructions)}
    \cup (IF dc.blocks[i + 1].instruction = Nothing THEN {}
          ELSE {dc.blocks[i + 1].instruction})

\* the instructions of the input that block i took and dropped after a return
Suppressed(dc, instructions, i) ==
    {k \in 1..Len(instructions) :
        /\ instructions[k].offset \in DOMAIN dc.block_mapping
        /\ dc.block_mapping[instructions[k].offset] = i
        /\ instructions[k] \notin Held(dc, i)}

\* C16: once build_graph has run over an instruction list, block_mapping has
\* the offset of every instruction of the list as a key (the instructions
\* dropped after a RETURN_VALUE too), every key is mapped to one block of
\* the graph, an instruction a block holds is mapped to that block, and no
\* two blocks hold the same instruction.
EveryInstructionInOneBlock ==
    (pc = "built" /\ ret.st = "ok") =>
        /\ \A k \in 1..Len(call.code.instructions) :
              call.code.instructions[k].offset \in DOMAIN ret.block_mapping
        /\ \A o \in DOMAIN ret.block_mapping : ret.block_mapping[o] \in Indices(ret.blocks)
        /\ \A i \in Indices(ret.blocks) :
              \A instruction \in Held(ret, i) :
                  ret.block_mapping[instruction.offset] = i
        /\ \A i \in Indices(ret.blocks), j \in Indices(ret.blocks) :
              i # j => Held(ret, i) \cap Held(ret, j) = {}

\* a graph of several blocks where a loop block dropped an instruction after
\* its RETURN_VALUE
EveryInstructionInOneBlockWitness ==
    /\ pc = "built"
    /\ ret.st = "ok"
    /\ Len(ret.blocks) > 2
    /\ \E i \in Indices(ret.blocks) :
          /\ ret.blocks[i + 1].type \in LOOP_TYPES
          /\ Suppressed(ret, call.code.instructions, i) # {}

\* the blocks of dc that hold a RETURN_VALUE
Returning(dc) == {i \in Indices(dc.blocks) : dc.blocks[i + 1].contains_return}

\* C17: once build_graph has closed the blocks, a block that contains a
\* RETURN_VALUE has no successor, its Normal edge being cleared, and no block
\* lists it among its predecessors; loop blocks are no exception.
ReturnBlocksHaveNoSuccessor ==
    (pc = "built" /\ ret.st = "ok") =>
        \A i \in Returning(ret) :
            /\ ret.blocks[i + 1].next = NoBlock
            /\ successors(ret.blocks[i + 1]) = <<>>
            /\ \A j \in Indices(ret.blocks) :
                  \A k \in 1..Len(ret.blocks[j + 1].predecessors) :
                      ret.blocks[j + 1].predecessors[k][1] # i

\* a loop block that returns and is followed by a block, in a graph where a
\* linear block returns too
ReturnBlocksHaveNoSuccessorWitness ==
    /\ pc = "built"
    /\ ret.st = "ok"
    /\ \E i \in Returning(ret), j \in Returning(ret) :
          /\ ret.blocks[i + 1].type \in LOOP_TYPES
          /\ ret.blocks[j + 1].type = "LinearBlock"
          /\ i + 1 < Len(ret.blocks)

\* the outcomes of evaluating the operands of call.self, the left one first
LeftOperand ==
    evaluate_locally(Attr(call.self, "left"), call.environment, call.m, 0)
RightOperand(l) ==
    evaluate_locally(Attr(call.self, "right"), call.environment, l.m, 0)

\* C18: the local evaluation of Minus(l, r), l and r evaluating to Number(x)
\* and Number(y), yields the encoding of x - y, y = 0 included.
MinusSubtracts ==
    (pc = "done" /\ call.op = "evaluate_locally" /\ call.self.cls = "Minus"
        /\ LeftOperand.st = "ok" /\ IsA(LeftOperand.val, "Number")
        /\ RightOperand(LeftOperand).st = "ok"
        /\ IsA(RightOperand(LeftOperand).val, "Number")) =>
            /\ ret.st = "ok"
            /\ Strip(ret.val) =
                   Strip(encode(PyInt(Attr(LeftOperand.val, "value").i
                                      - Attr(RightOperand(LeftOperand).val, "value").i),
                                call.m).val)

\* the comprehension blocks of dc that were handed a collection and an
\* iterator and whose body has a path with an append to the loop placeholder
Comprehending(dc) ==
    {i \in Indices(dc.blocks) :
        /\ dc.blocks[i + 1].type = "ComprehensionLoopBlock"
        /\ Len(dc.blocks[i + 1].predecessors) = 1
        /\ dc.blocks[dc.blocks[i + 1].predecessors[1][1] + 1].has_stack
        /\ Len(ContributedStacks(dc, i)[1]) >= 2
        /\ dc.blocks[i + 1].decompiler # Nothing
        /\ Len(find_append_path(dc.blocks[i + 1].decompiler.blocks,
                                dc.blocks[i + 1].loop_placeholder, FALSE, 0)) = 1}

\* the branch blocks on the append path of the body of block i
PathBranches(dc, i) ==
    LET body == dc.blocks[i + 1].decompiler.blocks
        path == find_append_path(body, dc.blocks[i + 1].loop_placeholder, FALSE, 0)[1]
    IN {k \in 1..Len(path) : body[path[k] + 1].type = "BranchBlock"}

\* Project(Lambda(cv, _), iterator), or Project(Lambda(cv, _),
\* Filter(Lambda(cv, _), iterator)) when filtered
IsProjection(v, name, iterator, filtered) ==
    /\ IsA(v, "Project")
    /\ IsA(Attr(v, "format"), "Lambda")
    /\ Strip(Attr(Attr(v, "format"), "parameter")) = Strip(SId(name))
    /\ IF filtered
       THEN /\ IsA(Attr(v, "input"), "Filter")
            /\ IsA(Attr(Attr(v, "input"), "filter"), "Lambda")
            /\ Strip(Attr(Attr(Attr(v, "input"), "filter"), "parameter"))
                   = Strip(SId(name))
            /\ Strip(Attr(Attr(v, "input"), "input")) = Strip(iterator)
       ELSE Strip(Attr(v, "input")) = Strip(iterator)

\* C19: in comprehension mode the execution of a ComprehensionLoopBlock
\* takes the iterator off the top of the surrounding stack and puts, in the
\* place of the collection below it, Project(Lambda(cv, e), iter'), iter'
\* being Filter(Lambda(cv, conj), iter) when the append path crosses a branch
\* and iter otherwise.  Stated for the shape of the result; e and conj are
\* left free.
ComprehensionProjects ==
    (pc = "executed" /\ ret.comprehension_mode) =>
        \A i \in Comprehending(ret) :
            /\ ret.st = "ok"
            /\ ret.blocks[i + 1].has_stack
            /\ LET before == ContributedStacks(ret, i)[1]
                   after == ret.blocks[i + 1].stack
               IN /\ Len(after) = Len(before) - 1
                  /\ SubSeq(after, 1, Len(after) - 1)
                        = SubSeq(before, 1, Len(before) - 2)
                  /\ IsProjection(after[Len(after)], cv(ret.blocks[i + 1].instruction),
                                  before[Len(before)], PathBranches(ret, i) # {})

\* dc and the graphs of the loop bodies below it
RECURSIVE GraphsOf(_)
GraphsOf(dc) ==
    {dc} \cup UNION { GraphsOf(dc.blocks[i + 1].decompiler) :
                        i \in {j \in Indices(dc.blocks) :
                                  dc.blocks[j + 1].decompiler # Nothing} }

\* the blocks of dc that Block.execute can give a stack from their
\* predecessors: every predecessor has run, and the block is no placeholder
Fed(dc) ==
    {i \in Indices(dc.blocks) :
        /\ dc.blocks[i + 1].type # "PlaceholderBlock"
        /\ dc.blocks[i + 1].predecessors # <<>>
        /\ \A j \in 1..Len(dc.blocks[i + 1].predecessors) :
               dc.blocks[dc.blocks[i + 1].predecessors[j][1] + 1].has_stack}

WithoutTop(stack) == SubSeq(stack, 1, Len(stack) - 1)

IsBranch(block, opnames) ==
    block.type = "BranchBlock" /\ block.instruction.opname \in opnames

\* the stack of an edge as the documented rule has it: without its
\* top out of a POP_JUMP_IF_*, along the Normal edge of a JUMP_IF_*_OR_POP
\* and along the Normal edge of a ForIterBlock, whole otherwise
ClaimedStack(predecessor, edge_type) ==
    IF \/ IsBranch(predecessor, BRANCH_POP_OPNAMES)
       \/ IsBranch(predecessor, BRANCH_MAY_POP_OPNAMES) /\ edge_type = NORMAL_FLOW
       \/ predecessor.type = "ForIterBlock" /\ edge_type = NORMAL_FLOW
    THEN WithoutTop(predecessor.stack)
    ELSE predecessor.stack

\* the same rule with the Jump edge of a ForIterBlock in the place of its
\* Normal edge
JumpPoppedStack(predecessor, edge_type) ==
    IF \/ IsBranch(predecessor, BRANCH_POP_OPNAMES)
       \/ IsBranch(predecessor, BRANCH_MAY_POP_OPNAMES) /\ edge_type = NORMAL_FLOW
       \/ predecessor.type = "ForIterBlock" /\ edge_type = JUMP_FLOW
    THEN WithoutTop(predecessor.stack)
    ELSE predecessor.stack

\* every incoming edge of every fed block of the graphs of dc contributes
\* what Rule says
Contributes(dc, Rule(_, _)) ==
    \A g \in GraphsOf(dc) :
        \A i \in Fed(g) :
            \A j \in 1..Len(g.blocks[i + 1].predecessors) :
                ContributedStacks(g, i)[j] =
                    Rule(g.blocks[g.blocks[i + 1].predecessors[j][1] + 1],
                         g.blocks[i + 1].predecessors[j][2])

\* C20: in Block.execute an incoming edge contributes the final stack of
\* the predecessor without its top value when the predecessor is a
\* POP_JUMP_IF_* BranchBlock, or the edge is the Normal edge out of a
\* JUMP_IF_*_OR_POP BranchBlock, or the Normal edge out of a ForIterBlock;
\* the Jump edge out of a JUMP_IF_*_OR_POP, the Jump edge out of a
\* ForIterBlock and every edge out of another block contribute the whole
\* stack.
StackContribution ==
    pc = "executed" => Contributes(ret, ClaimedStack)

\* C20, amended: as above, but out of a ForIterBlock it is the Jump edge that
\* contributes the stack without its top value, and the Normal edge that
\* contributes the whole stack.
StackContributionAmended ==
    pc = "executed" => Contributes(ret, JumpPoppedStack)

\* a ForIterBlock that ran handed its stack over along both of its edges,
\* and the block of its Normal edge ran on it
StackContributionWitness ==
    /\ pc = "executed"
    /\ ret.st = "ok"
    /\ \E g \in GraphsOf(ret) :
          \E i \in Fed(g), k \in Fed(g), p \in Indices(g.blocks) :
              /\ g.blocks[p + 1].type = "ForIterBlock"
              /\ g.blocks[p + 1].stack # <<>>
              /\ g.blocks[p + 1].next = i
              /\ g.blocks[p + 1].next_jumped = k
              /\ g.blocks[i + 1].has_stack
              /\ g.blocks[k + 1].has_stack
              /\ \E j \in 1..Len(g.blocks[k + 1].predecessors) :
                    g.blocks[k + 1].predecessors[j] = <<p, JUMP_FLOW>>

\* the linear blocks of dc whose execute has one stack to start from: the
\* first block, or a block fed by a single edge
Started(dc) ==
    {i \in Indices(dc.blocks) :
        /\ dc.blocks[i + 1].type = "LinearBlock"
        /\ \/ i = 0 /\ dc.blocks[i + 1].predecessors = <<>>
           \/ i \in Fed(dc) /\ Len(dc.blocks[i + 1].predecessors) = 1}

\* the stack block i of dc starts from, execute_blocks passing []
StartingStack(dc, i) ==
    IF dc.blocks[i + 1].predecessors = <<>> THEN <<>> ELSE ContributedStacks(dc, i)[1]

\* the locals of LinearBlock.execute of block i after its first k instructions
LocalsAfter(dc, i, k) ==
    ExecuteLoop([stack |-> StartingStack(dc, i), left |-> <<>>,
                 bindings |-> <<>>, returns |-> PyNone,
                 key |-> Nothing, m |-> dc.m, st |-> "ok"],
                SubSeq(dc.blocks[i + 1].instructions, 1, k), 1)

\* the k-th instructions of the started blocks of dc that are an opname of
\* opnames with an int argument, the instructions before them having run
Reached(dc, opnames) ==
    {ik \in UNION { { <<i, k>> : k \in 1..Len(dc.blocks[i + 1].instructions) } :
                       i \in Started(dc) } :
        /\ dc.blocks[ik[1] + 1].instructions[ik[2]].opname \in opnames
        /\ dc.blocks[ik[1] + 1].instructions[ik[2]].argval.k = "int"
        /\ LocalsAfter(dc, ik[1], ik[2] - 1).st = "ok"}

\* Application(.. Application(Application(f, a1), a2) .., ak) as a tree
RECURSIVE Curried(_, _, _)
Curried(f, arguments, k) ==
    IF k = 0 THEN f
    ELSE S("Application", <<Curried(f, arguments, k - 1), arguments[k]>>)

\* before and after are the stacks around CALL_FUNCTION n
AppliedInOrder(before, after, n) ==
    LET depth == Len(before) IN
    /\ Len(after) = depth - n
    /\ StackTrees(SubSeq(after, 1, depth - n - 1))
          = StackTrees(SubSeq(before, 1, depth - n - 1))
    /\ Strip(after[depth - n])
          = Curried(Strip(before[depth - n]),
                    StackTrees(SubSeq(before, depth - n + 1, depth)), n)

\* C21: CALL_FUNCTION n on a stack that ends with f, a1, .., an puts
\* Application(.. Application(Application(f, a1), a2) .., an), a1 innermost,
\* in the place of these n + 1 entries; the entries below f stay and the
\* stack is n entries shorter.
CallAppliesLeftmostInnermost ==
    pc = "executed" =>
        \A ik \in Reached(ret, {"CALL_FUNCTION"}) :
            LET n == ret.blocks[ik[1] + 1].instructions[ik[2]].argval.i
                before == LocalsAfter(ret, ik[1], ik[2] - 1).stack
            IN Len(before) >= n + 1 =>
                 /\ LocalsAfter(ret, ik[1], ik[2]).st = "ok"
                 /\ AppliedInOrder(before, LocalsAfter(ret, ik[1], ik[2]).stack, n)

BUILD_OPNAMES == {"BUILD_LIST", "BUILD_TUPLE", "BUILD_SET", "BUILD_STRING", "BUILD_MAP"}

\* the number of entries BUILD_* n is to remove
Removed(instruction) ==
    IF instruction.opname = "BUILD_MAP" THEN 2 * instruction.argval.i
    ELSE instruction.argval.i

\* after is before with one entry in the place of its top `removed` entries
OneForTop(before, after, removed) ==
    /\ Len(after) = Len(before) - removed + 1
    /\ StackTrees(SubSeq(after, 1, Len(before) - removed))
          = StackTrees(SubSeq(before, 1, Len(before) - removed))

\* C22: BUILD_LIST, BUILD_TUPLE, BUILD_SET and BUILD_STRING n remove the top
\* n entries of the stack and BUILD_MAP n the top 2n entries, for every
\* n >= 0; each pushes one entry and leaves the entries below as they were.
BuildStackEffect ==
    pc = "executed" =>
        \A ik \in Reached(ret, BUILD_OPNAMES) :
            LET instruction == ret.blocks[ik[1] + 1].instructions[ik[2]]
                before == LocalsAfter(ret, ik[1], ik[2] - 1).stack
            IN (instruction.argval.i >= 0 /\ Len(before) >= Removed(instruction)) =>
                 /\ LocalsAfter(ret, ik[1], ik[2]).st = "ok"
                 /\ OneForTop(before, LocalsAfter(ret, ik[1], ik[2]).stack,
                              Removed(instruction))

\* the edges between blocks reachable from the first block that do not
\* target the first block
ForwardEdges(blocks) ==
    {e \in ReachableFrom(blocks, {0}) \X ReachableFrom(blocks, {0}) :
        e[2] \in Targets(blocks, e[1]) /\ e[2] # 0}

\* the blocks reachable from block i by at least one forward edge
RECURSIVE Beyond(_, _)
Beyond(blocks, seen) ==
    LET more == seen \cup {e[2] : e \in {f \in ForwardEdges(blocks) : f[1] \in seen}}
    IN IF more = seen THEN seen ELSE Beyond(blocks, more)

\* every cycle of the graph passes through the first block
CyclesThroughFirst(blocks) ==
    \A i \in ReachableFrom(blocks, {0}) :
        i \notin Beyond(blocks, {e[2] : e \in {f \in ForwardEdges(blocks) : f[1] = i}})

\* the position of block i in the ordering
Position(dc, i) == CHOOSE j \in 1..Len(dc.ordering) : dc.ordering[j] = i

\* C23: the ordering sort_blocks computes starts with the first block and
\* holds every block reachable from it exactly once; on a graph whose cycles
\* all pass through the first block (a DAG among them) every edge u -> v
\* between reachable blocks that does not target the first block has u
\* before v.
OrderingTopological ==
    (pc = "sorted" /\ ret.st = "ok") =>
        /\ ret.ordering[1] = 0
        /\ InOrder(ret) = ReachableFrom(ret.blocks, {0})
        /\ Cardinality(InOrder(ret)) = Len(ret.ordering)
        /\ CyclesThroughFirst(ret.blocks) =>
              \A e \in ForwardEdges(ret.blocks) :
                  Position(ret, e[1]) < Position(ret, e[2])

\* a sorted graph of four blocks or more with a branch that has an edge back
\* to the first block
OrderingTopologicalWitness ==
    /\ pc = "sorted"
    /\ ret.st = "ok"
    /\ Len(ret.ordering) >= 4
    /\ CyclesThroughFirst(ret.blocks)
    /\ \E i \in InOrder(ret) : 0 \in Targets(ret.blocks, i)
    /\ \E i \in InOrder(ret) : Cardinality(Targets(ret.blocks, i)) = 2

\* self is Application(Fixed(), Lambda(_, Lambda(_, _)))
IsLoop(self) ==
    /\ IsA(self, "Application")
    /\ IsA(Attr(self, "function"), "Fixed")
    /\ IsA(Attr(self, "argument"), "Lambda")
    /\ IsA(Attr(Attr(self, "argument"), "body"), "Lambda")

\* C24: the local evaluation of Application(Fixed(), Lambda(on_loop,
\* Lambda(_, body))) ends with a result, the recursion not being unfolded.
LoopScaffoldingTerminates ==
    (pc = "done" /\ call.op = "evaluate_locally" /\ IsLoop(call.self)) =>
        ret.st = "ok"

\* the instructions of the input from the one that opens loop block i up to
\* the offset its argument names, the SETUP_LOOP of a while loop left out
LoopExtent(dc, instructions, i) ==
    LET opening == dc.blocks[i + 1].instruction IN
    SelectSeq(instructions,
              LAMBDA instruction :
                  /\ instruction.offset >= opening.offset
                  /\ instruction.offset < opening.argval.i
                  /\ ~(dc.blocks[i + 1].type = "WhileLoopBlock"
                        /\ instruction = opening))

\* the loop blocks of dc
LoopBlocks(dc) == {i \in Indices(dc.blocks) : dc.blocks[i + 1].type \in LOOP_TYPES}

\* the instruction at the offset where loop block i ends opens another block
EndsAtArgument(dc, instructions, i) ==
    \A k \in 1..Len(instructions) :
        instructions[k].offset = dc.blocks[i + 1].instruction.argval.i =>
            /\ dc.block_mapping[instructions[k].offset] # i
            /\ \A j \in 1..Len(dc.blocks[dc.block_mapping[instructions[k].offset] + 1]
                                   .instructions) :
                   dc.blocks[dc.block_mapping[instructions[k].offset] + 1]
                       .instructions[j].offset >= instructions[k].offset

\* C25: after build_graph the instruction list of a loop block holds, in
\* the order of the program, every instruction of the input from the one
\* that opens the loop up to the offset ignore_until, that offset excluded
\* and the SETUP_LOOP of a while loop left out, a RETURN_VALUE and the
\* instructions after it included; the instruction at ignore_until starts
\* a new block.
LoopBodyVerbatim ==
    (pc = "built" /\ ret.st = "ok") =>
        \A i \in LoopBlocks(ret) :
            /\ ret.blocks[i + 1].instructions
                  = LoopExtent(ret, call.code.instructions, i)
            /\ EndsAtArgument(ret, call.code.instructions, i)

\* Application(Lambda(n1, .. Application(Lambda(nk, base), vk) ..), v1) for
\* the bindings from the k-th on
RECURSIVE NestedBindings(_, _, _)
NestedBindings(bindings, k, base) ==
    IF k > Len(bindings) THEN base
    ELSE S("Application",
           <<S("Lambda", <<S("Identifier", <<bindings[k][1]>>),
                           NestedBindings(bindings, k + 1, base)>>),
             Strip(bindings[k][2])>>)

\* what block i of dc starts its expression from
Base(dc, i) ==
    IF dc.blocks[i + 1].returns # PyNone THEN Strip(dc.blocks[i + 1].returns)
    ELSE IF dc.blocks[i + 1].next # NoBlock
         THEN Strip(dc.blocks[dc.blocks[i + 1].next + 1].expression)
         ELSE SNull

\* the linear blocks of dc that express has given an expression
ExpressedLinear(dc) ==
    {i \in Indices(dc.blocks) : /\ dc.blocks[i + 1].type = "LinearBlock"
                                /\ dc.blocks[i + 1].expression # Nothing}

\* C26: the expression of a linear block with the bindings (n1, v1), ..,
\* (nk, vk), in the order they were added, is
\* Application(Lambda(n1, .. Application(Lambda(nk, base), vk) ..), v1),
\* where base is what the block returns if it returned, else the expression
\* of its successor if it has one, else Null: the binding added last is
\* the innermost.
BindingsNestLastInnermost ==
    (pc = "expressed" /\ ret.st = "ok") =>
        \A dc \in GraphsOf(ret) : \A i \in ExpressedLinear(dc) :
            Strip(dc.blocks[i + 1].expression)
                = NestedBindings(dc.blocks[i + 1].bindings, 1, Base(dc, i))

\* a block that stored two values to one name and returned has been expressed
BindingsNestLastInnermostWitness ==
    /\ pc = "expressed"
    /\ ret.st = "ok"
    /\ \E i \in ExpressedLinear(ret) :
           /\ Len(ret.blocks[i + 1].bindings) = 2
           /\ ret.blocks[i + 1].bindings[1][1] = ret.blocks[i + 1].bindings[2][1]
           /\ ret.blocks[i + 1].bindings[1][2] # ret.blocks[i + 1].bindings[2][2]
           /\ ret.blocks[i + 1].returns # PyNone

\* the graph of the body of loop block `block` as LoopBlock.execute has it
\* before it makes the placeholders
BodyGraph(block, comprehension_mode) ==
    Then(Then(build_graph([Decompiler(Machine(1, "down")) EXCEPT
                              !.comprehension_mode = comprehension_mode],
                          LoopInstructions(block), TRUE),
              sort_blocks),
         detach_unreachable)

\* the loop blocks of dc that LoopBlock.execute has given a decompiler
Rewired(dc) ==
    {i \in LoopBlocks(dc) : dc.blocks[i + 1].decompiler # Nothing}

\* where the edge of the given type leaves block
Slot(block, edge_type) ==
    IF edge_type = JUMP_FLOW THEN block.next_jumped ELSE block.next

\* the edges of the graph: <<from, to, type>>
EdgesOf(blocks) ==
    UNION {{<<i, successors(blocks[i + 1])[e][1], successors(blocks[i + 1])[e][2]>> :
               e \in 1..Len(successors(blocks[i + 1]))} : i \in Indices(blocks)}

\* Application(Identifier(name), Null())
PlaceholderShape(name) ==
    S("Application", <<S("Identifier", <<PyStr(name)>>), SNull>>)

\* block is a placeholder of the given name with no successor
IsPlaceholder(block, name) ==
    /\ block.type = "PlaceholderBlock"
    /\ Strip(block.expression) = PlaceholderShape(name)
    /\ block.next = NoBlock
    /\ successors(block) = <<>>

\* the edges of before into block `target` are, in after, edges of the same
\* type into the block `placeholder`, which lists them as its predecessors
Redirected(before, after, target, placeholder) ==
    \A edge \in EdgesOf(before.blocks) :
        edge[2] = target =>
            /\ Slot(after.blocks[edge[1] + 1], edge[3]) = placeholder
            /\ \E j \in 1..Len(after.blocks[placeholder + 1].predecessors) :
                   after.blocks[placeholder + 1].predecessors[j]
                       = <<edge[1], edge[3]>>

\* the rewiring LoopBlock.execute has done for the loop block `block`
RewiredAsClaimed(block, comprehension_mode) ==
    LET before == BodyGraph(block, comprehension_mode)
        after == block.decompiler
        last_block == Len(before.blocks) - 1
    IN /\ before.st = "ok"
       /\ block.after_placeholder = last_block
       /\ block.loop_placeholder = Len(before.blocks)
       /\ IsPlaceholder(after.blocks[block.loop_placeholder + 1], "on_loop")
       /\ IsPlaceholder(after.blocks[block.after_placeholder + 1], "on_after")
       /\ \A edge \in EdgesOf(after.blocks) : edge[2] # 0
       /\ after.blocks[1].predecessors = <<>>
       /\ Redirected(before, after, 0, block.loop_placeholder)
       /\ Redirected(before, after, last_block, block.after_placeholder)
       /\ \A p \in {block.loop_placeholder, block.after_placeholder} :
              \A j \in 1..Len(after.blocks[p + 1].predecessors) :
                  Slot(after.blocks[after.blocks[p + 1].predecessors[j][1] + 1],
                       after.blocks[p + 1].predecessors[j][2]) = p

\* C27: once LoopBlock.execute has rewired the graph of the body of a loop,
\* no edge of that graph goes to the entry block of the body or to the
\* AFTER_LOOP block: every edge that went back to the entry block goes to
\* one placeholder whose expression is Application(Identifier('on_loop'),
\* Null), every edge that went to the AFTER_LOOP block goes to one
\* placeholder whose expression is Application(Identifier('on_after'),
\* Null), each with the Normal or Jump label it had; the entry block has no
\* predecessor and neither placeholder has a successor.
LoopEdgesRewired ==
    (pc = "executed" /\ ret.st = "ok") =>
        \A dc \in GraphsOf(ret) : \A i \in Rewired(dc) :
            RewiredAsClaimed(dc.blocks[i + 1], dc.comprehension_mode)

\* a loop has been rewired whose body had a normal edge back to its entry
\* block and a jump edge to the AFTER_LOOP block
LoopEdgesRewiredWitness ==
    /\ pc = "executed"
    /\ ret.st = "ok"
    /\ \E dc \in GraphsOf(ret) : \E i \in Rewired(dc) :
           LET before == BodyGraph(dc.blocks[i + 1], dc.comprehension_mode) IN
           /\ \E edge \in EdgesOf(before.blocks) :
                  edge[2] = 0 /\ edge[3] = NORMAL_FLOW
           /\ \E edge \in EdgesOf(before.blocks) :
                  edge[2] = Len(before.blocks) - 1 /\ edge[3] = JUMP_FLOW

\* the blocks of dc outside the ordering: those detach_unreachable detaches
Unreachable(dc) == Indices(dc.blocks) \ InOrder(dc)

\* no edge is left between a block outside the ordering and any block
Severed(dc) ==
    /\ \A i \in Unreachable(dc) :
           /\ successors(dc.blocks[i + 1]) \in {<<>>, <<<<NoBlock, NORMAL_FLOW>>,
                                                      <<NoBlock, JUMP_FLOW>>>>}
           /\ dc.blocks[i + 1].predecessors = <<>>
    /\ \A i \in InOrder(dc) :
           /\ dc.blocks[i + 1].next \notin Unreachable(dc)
           /\ dc.blocks[i + 1].next_jumped \notin Unreachable(dc)
           /\ \A j \in 1..Len(dc.blocks[i + 1].predecessors) :
                  dc.blocks[i + 1].predecessors[j][1] \notin Unreachable(dc)

\* C28: detach_unreachable completes without error on every graph that
\* build_graph produces, whatever the unreachable blocks are and wherever
\* their edges go, and then a detached block has no successor and no
\* predecessor, no block of the ordering has a detached block as next or
\* next_jumped, and none lists a detached block among its predecessors.
DetachUnreachableCompletes ==
    pc = "detached" => (ret.st = "ok" /\ Severed(ret))

\* the blocks of dc whose Block.execute has run to its end
Stacked(dc) == {i \in Indices(dc.blocks) : dc.blocks[i + 1].has_stack}

\* the blocks the predecessors list of block i names
Predecessors(dc, i) ==
    {dc.blocks[i + 1].predecessors[j][1] : j \in 1..Len(dc.blocks[i + 1].predecessors)}

\* dc stopped on the AttributeError of a stack that is not there, with a
\* block that could have asked for it
ReadUnexecuted(dc) ==
    /\ dc.st = "AttributeError"
    /\ \E i \in Indices(dc.blocks) \ Stacked(dc) :
           /\ dc.blocks[i + 1].type # "PlaceholderBlock"
           /\ Predecessors(dc, i) \ Stacked(dc) # {}

\* C29: when the execute of a block runs, from execute_blocks in the order
\* of the ordering or from the walk of ComprehensionLoopBlock.execute along
\* its path, every block of its predecessors list has been executed and has
\* its final stack: no block reads the stack of a predecessor that was not
\* executed.  The graphs are those of decompile: the one of the code and
\* the rewired ones of the loops in it.
PredecessorsExecutedFirst ==
    (pc = "executed" /\ ~call.ignore_loop) =>
        \A dc \in GraphsOf(ret) :
            /\ ~ReadUnexecuted(dc)
            /\ \A i \in Stacked(dc) : Predecessors(dc, i) \subseteq Stacked(dc)

\* the blocks of the body of a loop have been executed, one of them after
\* two predecessors
PredecessorsExecutedFirstWitness ==
    /\ pc = "executed"
    /\ ~call.ignore_loop
    /\ ret.st = "ok"
    /\ \E dc \in GraphsOf(ret) \ {ret} : \E i \in Stacked(dc) :
           Cardinality(Predecessors(dc, i)) > 1

\* no list is the stack of two executed blocks of dc, and none is the list
\* the caller passed
OwnStacks(dc) ==
    \A i \in Stacked(dc) :
        /\ dc.blocks[i + 1].stack_id # 0
        /\ \A j \in Stacked(dc) \ {i} :
               dc.blocks[j + 1].stack_id # dc.blocks[i + 1].stack_id

\* the stack Block.execute gives block i, from what the lists hold now
Handed(dc, i) ==
    IF dc.blocks[i + 1].predecessors = <<>> THEN dc.starting_stack
    ELSE ContributedStacks(dc, i)[1]

\* the stack the instructions of the linear block i leave, run again from
\* what the block is handed now
Rerun(dc, i) ==
    ExecuteLoop([stack |-> Handed(dc, i), left |-> <<>>, bindings |-> <<>>,
                 returns |-> PyNone, key |-> Nothing, m |-> dc.m, st |-> "ok"],
                dc.blocks[i + 1].instructions, 1)

\* the final stack of block i is still what its execute made of the stack
\* it was handed, and the list its loop body was passed is what was passed
StackKept(dc, i) ==
    LET block == dc.blocks[i + 1] IN
    CASE block.type = "LinearBlock" ->
           /\ Rerun(dc, i).st = "ok"
           /\ StackTrees(block.stack) = StackTrees(Rerun(dc, i).stack)
      [] block.type = "ForIterBlock" ->
           StackTrees(block.stack)
               = Append(StackTrees(Handed(dc, i)),
                        S("Identifier", <<PyStr(cv(block.instruction))>>))
      [] block.type = "WhileLoopBlock" ->
           /\ block.stack = Handed(dc, i)
           /\ block.decompiler.starting_stack = Handed(dc, i)
      [] block.type = "ForLoopBlock" ->
           /\ Append(block.stack, block.iterator) = Handed(dc, i)
           /\ block.decompiler.starting_stack = Handed(dc, i)
      [] OTHER -> block.stack = Handed(dc, i)

\* C30: the execute of a block changes the final stack of no other block
\* and not the starting_stack its caller passed: every block works on a
\* list of its own, so that once the blocks of a graph have run, those of
\* the bodies of its loops included, the final stack of each is the one its
\* own execute left.
StacksNotShared ==
    pc = "executed" =>
        /\ ret.st = "ok" => ret.starting_stack = <<>>
        /\ \A dc \in GraphsOf(ret) :
               /\ OwnStacks(dc)
               /\ dc.st = "ok" => \A i \in Stacked(dc) : StackKept(dc, i)

\* in the body of a loop a linear block has left a stack that is not the
\* one its predecessor handed it, and the stack of the predecessor and the
\* list the body was passed are not empty
StacksNotSharedWitness ==
    /\ pc = "executed"
    /\ ret.st = "ok"
    /\ \E dc \in GraphsOf(ret) \ {ret} :
           /\ dc.starting_stack # <<>>
           /\ \E i \in Stacked(dc) :
                  /\ dc.blocks[i + 1].type = "LinearBlock"
                  /\ dc.blocks[i + 1].predecessors # <<>>
                  /\ Handed(dc, i) # <<>>
                  /\ dc.blocks[i + 1].stack # Handed(dc, i)
====
